---- MODULE Spec2Model ----
(***************************************************************************)
(* Model of the real-time control cycle of AOloopControl.c                 *)
(* (AdaptiveOpticsControl 1.6.19).                                         *)
(*                                                                         *)
(* Floating point numbers are modelled as fixed-point integers: the        *)
(* integer x stands for the number x / SCALE, products and quotients       *)
(* truncate toward zero, and the float NaN is the value NaN, which every   *)
(* arithmetic operation propagates and against which every comparison is   *)
(* false, as IEEE-754 prescribes.                                          *)
(*                                                                         *)
(* A shared-memory stream is its buffer plus the metadata record           *)
(* md[stream] = [write, cnt0, sem]: write flag, update counter, and the    *)
(* value of the semaphore the modelled consumer of that stream waits on    *)
(* (the writers post all semaphores of a stream together).                 *)
(***************************************************************************)
EXTENDS Integers, Sequences, FiniteSets, TLC

\* ------------------------------------------------------------------------
\* Bounds of the model
\* ------------------------------------------------------------------------
SCALE == 10
NBmodes == 2
MaxIterOL == 2
MaxFrames == 2
MaxPF == 1
MaxCamFrames == 3
MaxStep == 2
AutoTuneWindow == 12
MaxOLposts == 13
sizeDM == 2
SEMAPHORE_MAXVAL == 3
AveStats_NBpt == 2
MaxIterInt == 3
MaxIterRing == 41
MaxRingFree == 3
MaxUpdates == 2
MaxGPUcalls == 3
sizeWFS == 4
MaxPixFrames == 3
MaxStageIter == 3

\* ------------------------------------------------------------------------
\* Program constants
\* ------------------------------------------------------------------------
modevalDM_bsize == 20
FILTERMODE == 1
cntstart == 10
loopfrequ == 2000
NaN == -1000000

Modes == 0 .. (NBmodes - 1)
\* blocks of two consecutive modes (the last one may hold a single mode)
DMmodesNBblock == (NBmodes + 1) \div 2
Blocks == 0 .. (DMmodesNBblock - 1)
modeblock == [m \in Modes |-> m \div 2]
blockNBmodes == [b \in Blocks |-> Cardinality({m \in Modes : modeblock[m] = b})]

\* ------------------------------------------------------------------------
\* Float arithmetic (fixed point, NaN aware)
\* ------------------------------------------------------------------------
TDiv(a, b) == IF a >= 0 THEN a \div b ELSE -((-a) \div b)

isnan(x) == x = NaN

FMul(a, b) == IF isnan(a) \/ isnan(b) THEN NaN ELSE TDiv(a * b, SCALE)

FAdd(a, b) == IF isnan(a) \/ isnan(b) THEN NaN ELSE a + b

FSub(a, b) == IF isnan(a) \/ isnan(b) THEN NaN ELSE a - b

FNeg(a) == IF isnan(a) THEN NaN ELSE -a

fabs(a) == IF isnan(a) THEN NaN ELSE IF a < 0 THEN -a ELSE a

FGt(a, b) == ~isnan(a) /\ ~isnan(b) /\ a > b

FLt(a, b) == ~isnan(a) /\ ~isnan(b) /\ a < b

FLe(a, b) == ~isnan(a) /\ ~isnan(b) /\ a <= b

Min(a, b) == IF a < b THEN a ELSE b

\* ------------------------------------------------------------------------
\* State
\* ------------------------------------------------------------------------
VARIABLES
    md,                 \* stream metadata: [stream -> [write, cnt0, sem]]
    modeval,            \* aol_modeval: measured modal coefficients
    gain, mult,         \* AOconf.gain, AOconf.mult
    gainb, multfb, limitb,                  \* per-block arrays
    GAIN_modes, MULTF_modes, LIMIT_modes,   \* per-mode arrays
    AUTOTUNE_LIMITS_ON, AUTOTUNE_LIMITS_delta, AUTOTUNE_LIMITS_perc,
    AUTOTUNE_LIMITS_mcoeff,
    ARPFon, ARPFgain, IDmodevalPF, modevalPF,
    modegain, modemult, modelimit,          \* per-iteration local copies
    modevalDMnow, modevalDMnowfilt,         \* aol_modeval_dm_now(_filt)
    modevalDM_C,                            \* DM history ring
    ringhist,           \* the vectors committed to the ring, newest first
    modevalDM, modeval_ol,                  \* lagged DM state, open loop
    atlimbcoeff,                            \* aol_autotune_lim_bcoeff
    modevalDMindex, modevalDMindexl,        \* ring cursor, last cursor
    blockavelimFrac, blockstatcnt, blockave_limFrac, ALLave_limFrac,
    allavelimFrac,
    hardwlatency_frame, wfsmextrlatency_frame, framelatency0, alpha,
    pcOL, iterOL, nbframes,
    obs,                \* what the consumer of dm_now_filt saw on wake-up
    \* Read_cam_frame
    wfsimNBsem,         \* number of semaphores of the WFS stream (md[0].sem)
    COMPUTE_GPU_SCALING,
    avcamarraysInit, pcCam, InitSem, semval, WFScnt,
    arraytmp, imWFS0, imWFS1,   \* frame number held by each buffer
    prodStopped, callsAfterStop, retAfterStop, semAtCall, resetInCall,
    callAfterStop,
    \* AOloopControl_run and the loop control interface
    on, kill, cnt, cntmax, DMprimaryWrite_ON, CMMODE, maxlimit,
    pcRun,              \* position of AOloopControl_run
    pcStep,             \* position of a caller of AOloopControl_loopstep
    dmC, meas_act, meas_modes, cmd_modes,
    lastDM,             \* what the last DM stage of the main loop did
    stepValid, stepStart, stepN,
    \* AOloopControl_AutoTuneGains
    AUTOTUNE_GAINS_ON,
    pcTune,             \* position of AOloopControl_AutoTuneGains
    atg_cnt,            \* its sample counter cnt
    array_mvalOL1, array_mvalOL2, array_mvalOL3, array_mvalOL4,
    sig1, sig2, sig4,
    IDout,              \* the recommended gains, array of stream IDout_name
    \* AOcompute, reconstruction on the GPU
    GPU0, initWFSref_GPU, initcontrMcact_GPU, contrMcactcnt0, wfsrefcnt0,
    setupRef,           \* initWFSref handed to the last GPU_loop_MultMat_setup
    seenCM, seenRef,    \* matrix and reference counters at the last call
    changedCM, changedRef,  \* did they differ from the call before
    gpucalls,
    \* Read_cam_frame, pixel values
    rawframe, dark, wfsmask, WFSnormfloor, normalize,
    AOLCOMPUTE_TOTAL_ASYNC, AOLCOMPUTE_TOTAL_INIT, IMTOTAL, WFStotalflux,
    pix_imWFS0, pix_imWFS1, pcFrame, pixframes,
    \* compute_function_imtotal, the thread that totals imWFS0
    AOLCOMPUTE_TOTAL_ASYNC_THREADinit, TOTAL_ASYNC_sem,
    pcTotal,            \* position of the thread
    iiTotal,            \* its pixel index ii
    frametotals,        \* the totals of the dark-subtracted frames so far
    \* Read_cam_frame, the dark-subtraction threads
    ti,                 \* static long ti, the thread index of the main thread
    AOLCOMPUTE_DARK_SUBTRACT_THREADinit,
    threadindex,        \* the index each created thread read through &ti
    pcWorker,           \* position of each dark-subtraction thread
    DARK_SUBTRACT_sem, DARK_SUBTRACT_RESULT_sem,
    pcPool,             \* position of Read_cam_frame in the threaded path
    subcnt,             \* times each pixel was subtracted in this frame
    status,             \* AOconf[loop].status
    \* AOloopControl_run, statement by statement
    pcStage,            \* the next statement of the iteration that writes status
    stageiter,          \* iterations completed
    \* the commands that reset the loop and set ranges of modes
    pcReset,            \* position of AOloopControl_loopreset
    mbReset,            \* its block index mb
    confNBblock,        \* AOconf[loop].DMmodesNBblock as the commands read it
    stray,              \* the indices outside the mode arrays written so far
    lastrange           \* the last call of a range setter and its arguments

olvars == << md, modeval, gain, mult, gainb, multfb, limitb, GAIN_modes,
             MULTF_modes, LIMIT_modes, AUTOTUNE_LIMITS_ON,
             AUTOTUNE_LIMITS_delta, AUTOTUNE_LIMITS_perc,
             AUTOTUNE_LIMITS_mcoeff, ARPFon, ARPFgain, IDmodevalPF,
             modevalPF, modegain, modemult, modelimit, modevalDMnow,
             modevalDMnowfilt, modevalDM_C, ringhist, modevalDM, modeval_ol,
             atlimbcoeff, modevalDMindex, modevalDMindexl, blockavelimFrac,
             blockstatcnt, blockave_limFrac, ALLave_limFrac, allavelimFrac,
             hardwlatency_frame, wfsmextrlatency_frame, framelatency0,
             alpha, pcOL, iterOL, nbframes, obs >>

\* groups of variables that the actions leave alone together
gainvars == << gain, mult, gainb, multfb, GAIN_modes, MULTF_modes >>
limvars == << limitb, LIMIT_modes, atlimbcoeff >>
cfgvars == << AUTOTUNE_LIMITS_delta, AUTOTUNE_LIMITS_perc,
              AUTOTUNE_LIMITS_mcoeff, ARPFgain, hardwlatency_frame,
              wfsmextrlatency_frame, framelatency0, alpha >>
localvars == << modegain, modemult, modelimit >>
bufvars == << modevalDMnow, modevalDMnowfilt, modevalDM_C, ringhist,
              modevalDM, modeval_ol, modevalDMindex, modevalDMindexl >>
telemvars == << blockavelimFrac, blockstatcnt, blockave_limFrac,
                ALLave_limFrac, allavelimFrac >>
olctl == << pcOL, iterOL >>

camvars == << wfsimNBsem, COMPUTE_GPU_SCALING, avcamarraysInit, pcCam,
              InitSem, semval, WFScnt, arraytmp, imWFS0, imWFS1 >>
camghost == << prodStopped, callsAfterStop, retAfterStop, semAtCall,
               resetInCall, callAfterStop >>

\* the integrator task's variables other than the stream metadata
olrest == << modeval, gainvars, limvars, cfgvars, localvars, bufvars,
             telemvars, olctl, AUTOTUNE_LIMITS_ON, ARPFon, IDmodevalPF,
             modevalPF, nbframes, obs >>

runvars == << on, kill, cnt, cntmax, DMprimaryWrite_ON, CMMODE, maxlimit,
              pcRun, pcStep, dmC, meas_act, meas_modes, cmd_modes >>
runghost == << lastDM, stepValid, stepStart, stepN >>

tunevars == << AUTOTUNE_GAINS_ON, pcTune, atg_cnt, array_mvalOL1,
               array_mvalOL2, array_mvalOL3, array_mvalOL4, sig1, sig2, sig4,
               IDout >>

gpuvars == << GPU0, initWFSref_GPU, initcontrMcact_GPU, contrMcactcnt0,
              wfsrefcnt0 >>
gpughost == << setupRef, seenCM, seenRef, changedCM, changedRef, gpucalls >>

framecfg == << dark, wfsmask, WFSnormfloor, normalize,
               AOLCOMPUTE_TOTAL_ASYNC >>
framevars == << rawframe, framecfg, AOLCOMPUTE_TOTAL_INIT, IMTOTAL,
                WFStotalflux, pix_imWFS0, pix_imWFS1, pcFrame, pixframes >>

\* the GPU reconstruction and the pixel arithmetic of Read_cam_frame
poolvars == << ti, AOLCOMPUTE_DARK_SUBTRACT_THREADinit, threadindex,
               pcWorker, DARK_SUBTRACT_sem, DARK_SUBTRACT_RESULT_sem,
               pcPool, subcnt, status >>

stagevars == << pcStage, stageiter >>
rangeghost == << stray, lastrange >>
cmdvars == << pcReset, mbReset, confNBblock, rangeghost >>

totvars == << AOLCOMPUTE_TOTAL_ASYNC_THREADinit, TOTAL_ASYNC_sem, pcTotal,
              iiTotal, frametotals >>

pixvars == << gpuvars, gpughost, framevars, totvars, poolvars, stagevars,
             cmdvars >>

\* everything the modal integrator task and its streams do not touch
notOL == << camvars, camghost, runvars, runghost, tunevars, pixvars >>
\* everything outside Read_cam_frame and the integrator task
notCam == << runvars, runghost, tunevars, pixvars >>

vars == << olvars, camvars, camghost, runvars, runghost, tunevars, pixvars >>

StreamNames == { "modeval", "modevalPF", "dm_now", "dm_now_filt", "dm_C",
                 "dm", "ol", "LIMIT_modes", "limitb", "atlimbcoeff",
                 "wfsim", "imWFS0", "imWFS1", "dmC", "cmd_modes",
                 "out", "contrM", "contrMcact", "wfsref" }

\* ------------------------------------------------------------------------
\* Stream primitives
\* ------------------------------------------------------------------------
\* sem_post on every semaphore of the stream, not beyond SEMAPHORE_MAXVAL
SemPost(m, s) == [m EXCEPT ![s].sem = Min(@ + 1, SEMAPHORE_MAXVAL)]

SetCnt1(m, s, c) == [m EXCEPT ![s].cnt1 = c]

SetWrite(m, s, w) == [m EXCEPT ![s].write = w]

IncCnt0(m, s) == [m EXCEPT ![s].cnt0 = @ + 1]

\* post, cnt0++, write = 0: the end of a buffer update as the writers do it
PostCntClear(m, s) == SetWrite(IncCnt0(SemPost(m, s), s), s, 0)

ZeroVec == [m \in Modes |-> 0]

RECURSIVE SumOver(_, _)
SumOver(S, f) ==
    IF S = {} THEN 0
    ELSE LET x == CHOOSE y \in S : TRUE
         IN  FAdd(f[x], SumOver(S \ {x}, f))

\* ------------------------------------------------------------------------
\* Input sets
\* ------------------------------------------------------------------------
MeasVals == { -2 * SCALE, 0, SCALE, NaN }
\* measured vectors: the modes beyond the second repeat the first two
MeasVecs == { v \in [Modes -> MeasVals] : \A m \in Modes : v[m] = v[m % 2] }
PFVals == { SCALE }
GainVals == { 0, SCALE \div 5, SCALE }
\* number of loop iterations asked of AOloopControl_loopstep
StepVals == 0 .. MaxStep

\* ------------------------------------------------------------------------
\* AOloopControl_ComputeOpenLoopModes: state after its set-up
\* ------------------------------------------------------------------------
\* the configuration the task finds: gains, multipliers, limits, switches
InitOLGains ==
    /\ gain \in GainVals
    /\ mult = SCALE
    /\ gainb = [b \in Blocks |-> SCALE]
    /\ multfb = [b \in Blocks |-> SCALE]
    /\ limitb = [b \in Blocks |-> SCALE]
    /\ GAIN_modes = [m \in Modes |-> SCALE]
    /\ MULTF_modes = [m \in Modes |-> SCALE]
    /\ LIMIT_modes = [m \in Modes |-> SCALE]

\* framelatency, framelatency0 and alpha for a configured latency
InitOLLatency(hl, wl) ==
    /\ hardwlatency_frame = hl
    /\ wfsmextrlatency_frame = wl
    /\ framelatency0 = TDiv(hl + wl, SCALE)
    /\ alpha = (hl + wl) - SCALE * TDiv(hl + wl, SCALE)

InitOLSwitches ==
    /\ AUTOTUNE_LIMITS_ON = 0
    /\ AUTOTUNE_LIMITS_delta = SCALE \div 2
    /\ AUTOTUNE_LIMITS_perc = 100 * SCALE
    /\ AUTOTUNE_LIMITS_mcoeff = SCALE
    /\ ARPFon = 0
    /\ ARPFgain = SCALE \div 2
    /\ IDmodevalPF \in { -1, 1 }

\* the arrays, cursors and counters after the set-up of the task
InitOLState ==
    /\ modeval = ZeroVec
    /\ modevalPF = ZeroVec
    /\ modegain = ZeroVec
    /\ modemult = ZeroVec
    /\ modelimit = ZeroVec
    /\ modevalDMnow = ZeroVec
    /\ modevalDMnowfilt = ZeroVec
    /\ modevalDM_C = [i \in 0 .. (modevalDM_bsize - 1) |-> ZeroVec]
    /\ ringhist = << >>
    /\ modevalDM = ZeroVec
    /\ modeval_ol = ZeroVec
    /\ atlimbcoeff = [b \in Blocks |-> 0]
    /\ modevalDMindex = 0
    /\ modevalDMindexl = 0
    /\ blockavelimFrac = [b \in Blocks |-> 0]
    /\ blockstatcnt = 0
    /\ blockave_limFrac = [b \in Blocks |-> 0]
    /\ ALLave_limFrac = 0
    /\ allavelimFrac = 0
    /\ pcOL = "wait"
    /\ iterOL = 0
    /\ nbframes = 0
    /\ obs = [woken |-> FALSE, write |-> 0, stale |-> FALSE]

InitOL ==
    /\ InitOLGains
    /\ InitOLLatency(TDiv(22 * SCALE, 10), 0)
    /\ InitOLSwitches
    /\ InitOLState

\* streams created at set-up; dm_now, dm_C and dm were initialised once
InitMd ==
    md = [s \in StreamNames |->
            [write |-> 0,
             cnt0 |-> IF s \in {"dm_now", "dm_C", "dm"} THEN 1 ELSE 0,
             cnt1 |-> 0,
             sem |-> IF s \in {"dm_now", "dm_C", "dm"} THEN 1 ELSE 0]]

\* ------------------------------------------------------------------------
\* Environment of the integrator task
\* ------------------------------------------------------------------------
\* The reconstructor publishes a new measured modal vector.  The integrator
\* reads aol_modeval in OL_Update and in OL_Estimate only, so a publication
\* at any other point of the iteration is indistinguishable from one just
\* before the next of these two reads; it is modelled at those points.
WriteModevalFrom(V, maxframes) ==
    /\ nbframes < maxframes
    /\ pcOL \in {"wait", "update", "estimate"}
    /\ \E v \in V : modeval' = v
    /\ md' = PostCntClear(md, "modeval")
    /\ nbframes' = nbframes + 1
    /\ UNCHANGED << notOL, gainvars, limvars, cfgvars, localvars, bufvars,
                    telemvars, olctl, AUTOTUNE_LIMITS_ON, ARPFon,
                    IDmodevalPF, modevalPF, obs >>

WriteModeval == WriteModevalFrom(MeasVecs, MaxFrames)

\* the predictive filter publishes a prediction
WritePF ==
    /\ IDmodevalPF # -1
    /\ md["modevalPF"].cnt0 < MaxPF
    /\ \E v \in [Modes -> PFVals] : modevalPF' = v
    /\ md' = PostCntClear(md, "modevalPF")
    /\ UNCHANGED << notOL, modeval, gainvars, limvars, cfgvars, localvars, bufvars,
                    telemvars, olctl, AUTOTUNE_LIMITS_ON, ARPFon,
                    IDmodevalPF, nbframes, obs >>

\* number of semaphore posts made so far on aol_modeval_dm_now_filt: one per
\* completed iteration, plus the one of the iteration in progress
FiltPosts ==
    iterOL + (IF pcOL \in {"filt_cnt", "filt_clr", "commit", "estimate"}
              THEN 1 ELSE 0)

\* a subscriber of aol_modeval_dm_now_filt is woken by a semaphore post and
\* looks at the stream's write flag and update counter
ConsumerWake ==
    /\ md["dm_now_filt"].sem > 0
    /\ md' = [md EXCEPT !["dm_now_filt"].sem = @ - 1]
    /\ obs' = [woken |-> TRUE,
               write |-> md["dm_now_filt"].write,
               stale |-> md["dm_now_filt"].cnt0 < FiltPosts]
    /\ UNCHANGED << notOL, modeval, gainvars, limvars, cfgvars, localvars, bufvars,
                    telemvars, olctl, AUTOTUNE_LIMITS_ON, ARPFon,
                    IDmodevalPF, modevalPF, nbframes >>

\* Operator switches.  The integrator reads each flag once per iteration, so
\* switching during an iteration is indistinguishable from switching before
\* it or after it; the switches are modelled between iterations.
AOloopControl_AUTOTUNE_LIMITS_on ==
    /\ pcOL = "wait"
    /\ AUTOTUNE_LIMITS_ON' = 1
    /\ UNCHANGED << notOL, md, modeval, gainvars, limvars, cfgvars, localvars,
                    bufvars, telemvars, olctl, ARPFon, IDmodevalPF,
                    modevalPF, nbframes, obs >>

AOloopControl_AUTOTUNE_LIMITS_off ==
    /\ pcOL = "wait"
    /\ AUTOTUNE_LIMITS_ON' = 0
    /\ UNCHANGED << notOL, md, modeval, gainvars, limvars, cfgvars, localvars,
                    bufvars, telemvars, olctl, ARPFon, IDmodevalPF,
                    modevalPF, nbframes, obs >>

AOloopControl_ARPFon ==
    /\ pcOL = "wait"
    /\ ARPFon' = 1
    /\ UNCHANGED << notOL, md, modeval, gainvars, limvars, cfgvars, localvars,
                    bufvars, telemvars, olctl, AUTOTUNE_LIMITS_ON,
                    IDmodevalPF, modevalPF, nbframes, obs >>

AOloopControl_ARPFoff ==
    /\ pcOL = "wait"
    /\ ARPFon' = 0
    /\ UNCHANGED << notOL, md, modeval, gainvars, limvars, cfgvars, localvars,
                    bufvars, telemvars, olctl, AUTOTUNE_LIMITS_ON,
                    IDmodevalPF, modevalPF, nbframes, obs >>

\* ------------------------------------------------------------------------
\* AOloopControl_ComputeOpenLoopModes: one iteration of its loop
\* ------------------------------------------------------------------------
\* wait for a new measurement on semaphore 4, then drive it to zero
OL_WaitUpTo(maxiter) ==
    /\ pcOL = "wait"
    /\ iterOL < maxiter
    /\ md["modeval"].sem > 0
    /\ md' = [md EXCEPT !["modeval"].sem = 0]
    /\ pcOL' = "update"
    /\ UNCHANGED << notOL, modeval, gainvars, limvars, cfgvars, localvars, bufvars,
                    telemvars, iterOL, AUTOTUNE_LIMITS_ON, ARPFon,
                    IDmodevalPF, modevalPF, nbframes, obs >>

OL_Wait == OL_WaitUpTo(MaxIterOL)

\* effective gain, multiplier and limit of every mode
EffGain(m) == FMul(FMul(gain, gainb[modeblock[m]]), GAIN_modes[m])

EffMult(m) == FMul(FMul(mult, multfb[modeblock[m]]), MULTF_modes[m])

EffLimit(m) == FMul(limitb[modeblock[m]], LIMIT_modes[m])

\* current state = modemult x (last state - modegain x WFSmodeval)
DMnowUpdate(mg, mm, last, meas) == FMul(mm, FSub(last, FMul(mg, meas)))

OL_Update ==
    /\ pcOL = "update"
    /\ modegain' = [m \in Modes |-> EffGain(m)]
    /\ modemult' = [m \in Modes |-> EffMult(m)]
    /\ modelimit' = [m \in Modes |-> EffLimit(m)]
    /\ md' = SetWrite(md, "dm_now", 1)
    /\ modevalDMnow' =
          [m \in Modes |-> DMnowUpdate(modegain'[m], modemult'[m],
                                       modevalDM_C[modevalDMindexl][m],
                                       modeval[m])]
    /\ pcOL' = "blend"
    /\ UNCHANGED << notOL, modeval, gainvars, limvars, cfgvars, modevalDMnowfilt,
                    modevalDM_C, ringhist, modevalDM, modeval_ol, modevalDMindex,
                    modevalDMindexl, telemvars, iterOL, AUTOTUNE_LIMITS_ON,
                    ARPFon, IDmodevalPF, modevalPF, nbframes, obs >>

\* mix the prediction with the current DM state
PFBlend(now, pf) ==
    FAdd(FMul(FNeg(ARPFgain), pf), FMul(FSub(SCALE, ARPFgain), now))

OL_Blend ==
    /\ pcOL = "blend"
    /\ \/ /\ ARPFon # 1
          /\ UNCHANGED << md, modevalDMnow, IDmodevalPF >>
       \/ /\ ARPFon = 1
          /\ IDmodevalPF = -1
          /\ \E id \in { -1, 1 } : IDmodevalPF' = id
          /\ UNCHANGED << md, modevalDMnow >>
       \/ /\ ARPFon = 1
          /\ IDmodevalPF # -1
          /\ md["modevalPF"].sem > 0
          /\ modevalDMnow' =
                [m \in Modes |-> PFBlend(modevalDMnow[m], modevalPF[m])]
          /\ md' = [md EXCEPT !["modevalPF"].sem = 0]
          /\ UNCHANGED IDmodevalPF
    /\ pcOL' = "filter"
    /\ UNCHANGED << notOL, modeval, gainvars, limvars, cfgvars, localvars,
                    modevalDMnowfilt, modevalDM_C, ringhist, modevalDM, modeval_ol,
                    modevalDMindex, modevalDMindexl, telemvars, iterOL,
                    AUTOTUNE_LIMITS_ON, ARPFon, modevalPF, nbframes, obs >>

\* automatic adjustment of one per-mode limit: grow it when the mode is beyond
\* the limit in force, else shrink it
AutoTuneLimit(lim, v, ml) ==
    IF FGt(fabs(FMul(AUTOTUNE_LIMITS_mcoeff, v)), ml)
    THEN FMul(lim, SCALE + AUTOTUNE_LIMITS_delta)
    ELSE FMul(lim, SCALE - TDiv(FMul(AUTOTUNE_LIMITS_delta,
                                     AUTOTUNE_LIMITS_perc), 100))

\* block average of the per-mode limits
LimBlockAve(L, b) ==
    TDiv(SumOver({m \in Modes : modeblock[m] = b}, L), blockNBmodes[b])

\* factor applied to a block limit, kept within 1 -/+ delta
LimBlockCoeff(ave) ==
    LET c == SCALE + TDiv(FMul(ave - SCALE, AUTOTUNE_LIMITS_delta), 10)
    IN  IF c < SCALE - AUTOTUNE_LIMITS_delta
        THEN SCALE - AUTOTUNE_LIMITS_delta
        ELSE IF c > SCALE + AUTOTUNE_LIMITS_delta
             THEN SCALE + AUTOTUNE_LIMITS_delta
             ELSE c

\* clamp of one mode to +/- its limit, upper test first
ClipHigh(v, ml) == IF FGt(v, ml) THEN ml ELSE v

\* clamp of one mode to +/- its limit
Clip(v, ml) ==
    IF FLt(ClipHigh(v, ml), FNeg(ml)) THEN FNeg(ml) ELSE ClipHigh(v, ml)

\* number of times the clamp of one mode hit a boundary
ClipCount(v, ml) ==
    (IF FGt(v, ml) THEN 1 ELSE 0)
      + (IF FLt(ClipHigh(v, ml), FNeg(ml)) THEN 1 ELSE 0)

RECURSIVE CountOver(_, _, _)
CountOver(S, v, ml) ==
    IF S = {} THEN 0
    ELSE LET x == CHOOSE y \in S : TRUE
         IN  ClipCount(v[x], ml[x]) + CountOver(S \ {x}, v, ml)

\* an integrator that adjusts the limits whatever the switch says
LimitsTunedAlways == TRUE

\* does this iteration run the automatic adjustment of the limits
LimitsTuned == AUTOTUNE_LIMITS_ON = 1

OL_Filter ==
    /\ pcOL = "filter"
    /\ IF LimitsTuned
       THEN /\ LIMIT_modes' =
                  [m \in Modes |-> AutoTuneLimit(LIMIT_modes[m],
                                                 modevalDMnow[m],
                                                 modelimit[m])]
            /\ atlimbcoeff' =
                  [b \in Blocks |-> LimBlockAve(LIMIT_modes', b)]
            /\ limitb' =
                  [b \in Blocks |->
                      FMul(limitb[b], LimBlockCoeff(atlimbcoeff'[b]))]
            /\ md' = PostCntClear(PostCntClear(PostCntClear(
                        SetWrite(md, "dm_now_filt", 1),
                        "LIMIT_modes"), "atlimbcoeff"), "limitb")
       ELSE /\ md' = SetWrite(md, "dm_now_filt", 1)
            /\ UNCHANGED limvars
    /\ IF FILTERMODE = 1
       THEN /\ modevalDMnowfilt' =
                  [m \in Modes |-> Clip(modevalDMnow[m], modelimit[m])]
            /\ blockavelimFrac' =
                  [b \in Blocks |->
                      blockavelimFrac[b]
                        + CountOver({m \in Modes : modeblock[m] = b},
                                    modevalDMnow, modelimit)]
       ELSE /\ modevalDMnowfilt' = modevalDMnow
            /\ UNCHANGED blockavelimFrac
    /\ pcOL' = "pub_now"
    /\ UNCHANGED << notOL, modeval, gainvars, cfgvars, localvars, modevalDMnow,
                    modevalDM_C, ringhist, modevalDM, modeval_ol, modevalDMindex,
                    modevalDMindexl, blockstatcnt, blockave_limFrac,
                    ALLave_limFrac, allavelimFrac, iterOL,
                    AUTOTUNE_LIMITS_ON, ARPFon, IDmodevalPF, modevalPF,
                    nbframes, obs >>

\* publish aol_modeval_dm_now
OL_PublishNow ==
    /\ pcOL = "pub_now"
    /\ md' = SetWrite(IncCnt0(SetCnt1(SemPost(md, "dm_now"), "dm_now",
                                       modevalDMindex), "dm_now"),
                      "dm_now", 0)
    /\ pcOL' = "filt_post"
    /\ UNCHANGED << notOL, modeval, gainvars, limvars, cfgvars, localvars, bufvars,
                    telemvars, iterOL, AUTOTUNE_LIMITS_ON, ARPFon,
                    IDmodevalPF, modevalPF, nbframes, obs >>

\* publish aol_modeval_dm_now_filt, in the three steps of the code
OL_FiltPost ==
    /\ pcOL = "filt_post"
    /\ md' = SemPost(md, "dm_now_filt")
    /\ pcOL' = "filt_cnt"
    /\ UNCHANGED << notOL, modeval, gainvars, limvars, cfgvars, localvars, bufvars,
                    telemvars, iterOL, AUTOTUNE_LIMITS_ON, ARPFon,
                    IDmodevalPF, modevalPF, nbframes, obs >>

OL_FiltCnt ==
    /\ pcOL = "filt_cnt"
    /\ md' = IncCnt0(SetCnt1(md, "dm_now_filt", modevalDMindex),
                     "dm_now_filt")
    /\ pcOL' = "filt_clr"
    /\ UNCHANGED << notOL, modeval, gainvars, limvars, cfgvars, localvars, bufvars,
                    telemvars, iterOL, AUTOTUNE_LIMITS_ON, ARPFon,
                    IDmodevalPF, modevalPF, nbframes, obs >>

OL_FiltClr ==
    /\ pcOL = "filt_clr"
    /\ md' = SetWrite(md, "dm_now_filt", 0)
    /\ pcOL' = "commit"
    /\ UNCHANGED << notOL, modeval, gainvars, limvars, cfgvars, localvars, bufvars,
                    telemvars, iterOL, AUTOTUNE_LIMITS_ON, ARPFon,
                    IDmodevalPF, modevalPF, nbframes, obs >>

\* write the filtered vector into the current slot of the history ring
\* a commit to the slot written by the iteration before
CommitSlotLast == modevalDMindexl

\* the slot of the ring an iteration writes
CommitSlot == modevalDMindex

\* the most recent entries of a history of commits, newest first: as many
\* as the ring has slots, and two more
Recent(h) == SubSeq(h, 1, Min(Len(h), modevalDM_bsize + 2))

OL_Commit ==
    /\ pcOL = "commit"
    /\ modevalDM_C' =
          [modevalDM_C EXCEPT ![CommitSlot] = modevalDMnowfilt]
    /\ ringhist' = Recent(<< modevalDMnowfilt >> \o ringhist)
    /\ md' = SetWrite(IncCnt0(SetCnt1(SemPost(md, "dm_C"), "dm_C",
                                       modevalDMindex), "dm_C"), "dm_C", 0)
    /\ pcOL' = "estimate"
    /\ UNCHANGED << notOL, modeval, gainvars, limvars, cfgvars, localvars,
                    modevalDMnow, modevalDMnowfilt, modevalDM, modeval_ol,
                    modevalDMindex, modevalDMindexl, telemvars, iterOL,
                    AUTOTUNE_LIMITS_ON, ARPFon, IDmodevalPF, modevalPF,
                    nbframes, obs >>

\* ring index `lag` slots behind the cursor, wrapped once when negative
LagIndex(lag) ==
    IF modevalDMindex - lag < 0
    THEN modevalDMindex - lag + modevalDM_bsize
    ELSE modevalDMindex - lag

\* what is found by a read outside the ring: any value
StrayVals == { 0, 7 * SCALE }
StrayVecs == { [m \in Modes |-> x] : x \in StrayVals }

\* the vectors a read of ring slot i can return
RingRead(i) ==
    IF i \in 0 .. (modevalDM_bsize - 1) THEN { modevalDM_C[i] }
                                        ELSE StrayVecs

\* DM state at the time of the measurement: linear interpolation between
\* the two slots read
DMatMeasurement(s0, s1, m) ==
    FAdd(FMul(SCALE - alpha, s0[m]), FMul(alpha, s1[m]))

\* the cursor after an iteration
NextCursor(c) == IF c + 1 = modevalDM_bsize THEN 0 ELSE c + 1

\* lagged DM state, open-loop estimate, cursor advance and telemetry
OL_Estimate ==
    /\ pcOL = "estimate"
    /\ \E s0 \in RingRead(LagIndex(framelatency0)),
          s1 \in RingRead(LagIndex(framelatency0 + 1)) :
          modevalDM' = [m \in Modes |-> DMatMeasurement(s0, s1, m)]
    /\ modeval_ol' = [m \in Modes |-> FSub(modeval[m], modevalDM'[m])]
    /\ md' = PostCntClear(PostCntClear(md, "dm"), "ol")
    /\ modevalDMindexl' = modevalDMindex
    /\ modevalDMindex' = NextCursor(modevalDMindex)
    /\ IF blockstatcnt + 1 = AveStats_NBpt
       THEN /\ blockave_limFrac' =
                  [b \in Blocks |->
                      TDiv(blockavelimFrac[b] * SCALE, blockstatcnt + 1)]
            /\ ALLave_limFrac' =
                  TDiv((allavelimFrac + SumOver(Blocks, blockavelimFrac))
                         * SCALE, blockstatcnt + 1)
            /\ blockavelimFrac' = [b \in Blocks |-> 0]
            /\ allavelimFrac' = 0
            /\ blockstatcnt' = 0
       ELSE /\ blockstatcnt' = blockstatcnt + 1
            /\ UNCHANGED << blockavelimFrac, blockave_limFrac,
                            ALLave_limFrac, allavelimFrac >>
    /\ pcOL' = "wait"
    /\ iterOL' = iterOL + 1
    /\ UNCHANGED << notOL, modeval, gainvars, limvars, cfgvars, localvars,
                    modevalDMnow, modevalDMnowfilt, modevalDM_C, ringhist,
                    AUTOTUNE_LIMITS_ON, ARPFon, IDmodevalPF, modevalPF,
                    nbframes, obs >>

\* ------------------------------------------------------------------------
\* Read_cam_frame and the wavefront sensor camera
\* ------------------------------------------------------------------------
\* The frame semaphore is semptr[semindex] of the camera stream; the main
\* loop (RM = 0) and the response matrix acquisition (RM = 1) each have
\* their own semaphore and frame counter and are otherwise the same code.
\* md["wfsim"].sem is the semaphore of the caller that is modelled.

\* the camera publishes a frame
WFS_Post ==
    /\ ~prodStopped
    /\ md["wfsim"].cnt0 < MaxCamFrames
    /\ md' = IF wfsimNBsem > 0
                THEN IncCnt0(SemPost(md, "wfsim"), "wfsim")
                ELSE IncCnt0(md, "wfsim")
    /\ UNCHANGED << notCam, olrest, camvars, camghost >>

\* the camera publishes nothing further
WFS_Stop ==
    /\ ~prodStopped
    /\ prodStopped' = TRUE
    /\ UNCHANGED << notCam, olvars, camvars, callsAfterStop, retAfterStop,
                    semAtCall, resetInCall, callAfterStop >>

\* sem_getvalue followed by that many sem_trywait
TryWaitAll(m, n) == [m EXCEPT !["wfsim"].sem = @ - Min(n, @)]

\* does a call with this InitSem start by resetting the semaphore
ResetsSemaphore(is) == avcamarraysInit = 0 \/ is = 1

\* entry of Read_cam_frame
Cam_Call ==
    /\ pcCam = "idle"
    /\ \E is \in { 0, 1 } :
         /\ InitSem' = is
         /\ IF prodStopped /\ callsAfterStop = 0
               THEN /\ semAtCall' = md["wfsim"].sem
                    /\ resetInCall' = ResetsSemaphore(is)
               ELSE UNCHANGED << semAtCall, resetInCall >>
    /\ callAfterStop' = prodStopped
    /\ callsAfterStop' = IF prodStopped THEN Min(callsAfterStop + 1, 2)
                                        ELSE callsAfterStop
    /\ pcCam' = "init0"
    /\ UNCHANGED << notCam, olvars, wfsimNBsem, COMPUTE_GPU_SCALING,
                    avcamarraysInit, semval, WFScnt, arraytmp, imWFS0,
                    imWFS1, prodStopped, retAfterStop >>

\* first call: allocate the work arrays and read the semaphore value
Cam_Init0 ==
    /\ pcCam = "init0"
    /\ IF avcamarraysInit = 0
          THEN /\ semval' = md["wfsim"].sem
               /\ pcCam' = "try0"
          ELSE /\ pcCam' = "init1"
               /\ UNCHANGED semval
    /\ UNCHANGED << notCam, olvars, wfsimNBsem, COMPUTE_GPU_SCALING,
                    avcamarraysInit, InitSem, WFScnt, arraytmp, imWFS0,
                    imWFS1, camghost >>

\* first call: set the semaphore to zero
Cam_Try0 ==
    /\ pcCam = "try0"
    /\ md' = TryWaitAll(md, semval)
    /\ avcamarraysInit' = 1
    /\ pcCam' = "init1"
    /\ UNCHANGED << notCam, olrest, wfsimNBsem, COMPUTE_GPU_SCALING, InitSem,
                    semval, WFScnt, arraytmp, imWFS0, imWFS1, camghost >>

\* InitSem = 1: read the semaphore value
Cam_Init1 ==
    /\ pcCam = "init1"
    /\ IF InitSem = 1
          THEN /\ semval' = md["wfsim"].sem
               /\ pcCam' = "try1"
          ELSE /\ pcCam' = "wait"
               /\ UNCHANGED semval
    /\ UNCHANGED << notCam, olvars, wfsimNBsem, COMPUTE_GPU_SCALING,
                    avcamarraysInit, InitSem, WFScnt, arraytmp, imWFS0,
                    imWFS1, camghost >>

\* InitSem = 1: set the semaphore to zero
Cam_Try1 ==
    /\ pcCam = "try1"
    /\ md' = TryWaitAll(md, semval)
    /\ pcCam' = "wait"
    /\ UNCHANGED << notCam, olrest, wfsimNBsem, COMPUTE_GPU_SCALING,
                    avcamarraysInit, InitSem, semval, WFScnt, arraytmp,
                    imWFS0, imWFS1, camghost >>

\* wait for a frame: poll the frame counter, or sem_wait
Cam_Wait ==
    /\ pcCam = "wait"
    /\ IF wfsimNBsem = 0
          THEN /\ WFScnt # md["wfsim"].cnt0
               /\ pcCam' = "load"
               /\ UNCHANGED md
          ELSE /\ md["wfsim"].sem > 0
               /\ md' = [md EXCEPT !["wfsim"].sem = @ - 1]
               /\ pcCam' = "getvalue"
    /\ UNCHANGED << notCam, olrest, wfsimNBsem, COMPUTE_GPU_SCALING,
                    avcamarraysInit, InitSem, semval, WFScnt, arraytmp,
                    imWFS0, imWFS1, camghost >>

\* after the wake-up: read what is left in the semaphore
Cam_GetValue ==
    /\ pcCam = "getvalue"
    /\ semval' = md["wfsim"].sem
    /\ pcCam' = "drain"
    /\ UNCHANGED << notCam, olvars, wfsimNBsem, COMPUTE_GPU_SCALING,
                    avcamarraysInit, InitSem, WFScnt, arraytmp, imWFS0,
                    imWFS1, camghost >>

\* a wake-up that leaves the backlog in the semaphore
DrainNone(n) == 0

\* how many of the posts left after the wake-up are taken back
DrainCount(n) == n

\* after the wake-up: drain the backlog
Cam_Drain ==
    /\ pcCam = "drain"
    /\ md' = TryWaitAll(md, DrainCount(semval))
    /\ pcCam' = "load"
    /\ UNCHANGED << notCam, olrest, wfsimNBsem, COMPUTE_GPU_SCALING,
                    avcamarraysInit, InitSem, semval, WFScnt, arraytmp,
                    imWFS0, imWFS1, camghost >>

\* copy the camera frame and record its counter
Cam_Load ==
    /\ pcCam = "load"
    /\ arraytmp' = md["wfsim"].cnt0
    /\ WFScnt' = md["wfsim"].cnt0
    /\ pcCam' = "process"
    /\ UNCHANGED << notCam, olvars, wfsimNBsem, COMPUTE_GPU_SCALING,
                    avcamarraysInit, InitSem, semval, imWFS0, imWFS1,
                    camghost >>

\* stream metadata after dark subtraction into imWFS0 (posts, then the
\* counter; the write flag is not used) and normalisation into imWFS1
ProcessFrameMd(m) ==
    LET m0 == IncCnt0(SemPost(m, "imWFS0"), "imWFS0")
    IN  IF COMPUTE_GPU_SCALING = 0
           THEN PostCntClear(SetWrite(m0, "imWFS1", 1), "imWFS1")
           ELSE m0

\* dark subtraction, total, normalisation; Read_cam_frame returns
Cam_Process ==
    /\ pcCam = "process"
    /\ imWFS0' = arraytmp
    /\ imWFS1' = IF COMPUTE_GPU_SCALING = 0 THEN arraytmp ELSE imWFS1
    /\ md' = ProcessFrameMd(md)
    /\ retAfterStop' = IF callAfterStop THEN Min(retAfterStop + 1, 2)
                                        ELSE retAfterStop
    /\ pcCam' = "idle"
    /\ UNCHANGED << notCam, olrest, wfsimNBsem, COMPUTE_GPU_SCALING,
                    avcamarraysInit, InitSem, semval, WFScnt, arraytmp,
                    prodStopped, callsAfterStop, semAtCall, resetInCall,
                    callAfterStop >>

\* ------------------------------------------------------------------------
\* AOloopControl_run, AOcompute, set_DM_modes and the loop control interface
\* ------------------------------------------------------------------------
Acts == 0 .. (sizeDM - 1)
\* measurements handed to the main loop: the same value on every mode or
\* actuator
RunMeasVals == { -2 * SCALE, SCALE, NaN }
RunMeasVecs == { [m \in Modes |-> x] : x \in RunMeasVals }
ActVecs == { [i \in Acts |-> x] : x \in RunMeasVals }

\* the mode basis: mode k pushes actuator k (modulo the DM size) by one unit
\* and pulls the next one by half a unit
DMmodes(k, i) ==
    IF i = k % sizeDM THEN SCALE
    ELSE IF i = (k + 1) % sizeDM THEN -(SCALE \div 2)
    ELSE 0

\* the loop control fields the operator interface leaves alone
runcfg == << CMMODE, maxlimit >>
runbufs == << dmC, meas_act, meas_modes, cmd_modes >>
\* the integrator task's variables other than the ARPF switch
olnoarpf == << md, modeval, gainvars, limvars, cfgvars, localvars, bufvars,
               telemvars, olctl, AUTOTUNE_LIMITS_ON, IDmodevalPF,
               modevalPF, nbframes, obs >>
\* everything outside AOloopControl_run and the loop control interface
notRun == << camghost, tunevars, pixvars >>

\* the operator switches the loop: a bounded run that was under way is no
\* longer followed
StepDisturbed ==
    /\ stepValid' = FALSE
    /\ stepStart' = 0
    /\ stepN' = 0

\* AOloopControl_loopon
AOloopControl_loopon ==
    /\ cntmax' = cnt - 1
    /\ on' = 1
    /\ StepDisturbed
    /\ UNCHANGED << notRun, olvars, camvars, kill, cnt, DMprimaryWrite_ON,
                    runcfg, pcRun, pcStep, runbufs, lastDM >>

\* AOloopControl_loopoff
AOloopControl_loopoff ==
    /\ on' = 0
    /\ StepDisturbed
    /\ UNCHANGED << notRun, olvars, camvars, kill, cnt, cntmax,
                    DMprimaryWrite_ON, runcfg, pcRun, pcStep, runbufs,
                    lastDM >>

\* AOloopControl_loopkill
AOloopControl_loopkill ==
    /\ kill' = 1
    /\ StepDisturbed
    /\ UNCHANGED << notRun, olvars, camvars, on, cnt, cntmax,
                    DMprimaryWrite_ON, runcfg, pcRun, pcStep, runbufs,
                    lastDM >>

\* the iteration count at which a bounded run of NBstep iterations stops
StepCntMax(c, NBstep) == c + NBstep

\* is the main loop process running, with no kill request pending
MainLoopRunning == pcRun \notin {"start", "done"} /\ kill = 0

\* AOloopControl_loopstep, first store: the stop count.  The two stores of
\* AOloopControl_loopstep go to the memory that AOloopControl_run reads
\* concurrently, so each is a step of its own.
LoopstepStore(counts) ==
    /\ pcStep = "idle"
    /\ \E NBstep \in counts :
         /\ cntmax' = StepCntMax(cnt, NBstep)
         /\ IF on = 0 /\ MainLoopRunning /\ NBstep >= 1
               THEN /\ stepValid' = TRUE
                    /\ stepStart' = cnt
                    /\ stepN' = NBstep
               ELSE StepDisturbed
    /\ pcStep' = "seton"
    /\ UNCHANGED << notRun, olvars, camvars, on, kill, cnt,
                    DMprimaryWrite_ON, runcfg, pcRun, runbufs, lastDM >>

AOloopControl_loopstep == LoopstepStore(StepVals)

\* AOloopControl_loopstep, second store: the loop is switched on
AOloopControl_loopstep_on ==
    /\ pcStep = "seton"
    /\ on' = 1
    /\ pcStep' = "waiting"
    /\ UNCHANGED << notRun, olvars, camvars, kill, cnt, cntmax,
                    DMprimaryWrite_ON, runcfg, pcRun, runbufs, runghost >>

\* AOloopControl_loopstep returns once the loop is off
AOloopControl_loopstep_return ==
    /\ pcStep = "waiting"
    /\ on # 1
    /\ pcStep' = "idle"
    /\ UNCHANGED << notRun, olvars, camvars, on, kill, cnt, cntmax,
                    DMprimaryWrite_ON, runcfg, pcRun, runbufs, runghost >>

\* AOloopControl_DMprimaryWrite_on
AOloopControl_DMprimaryWrite_on ==
    /\ DMprimaryWrite_ON' = 1
    /\ UNCHANGED << notRun, olvars, camvars, on, kill, cnt, cntmax, runcfg,
                    pcRun, pcStep, runbufs, runghost >>

\* AOloopControl_DMprimaryWrite_off
AOloopControl_DMprimaryWrite_off ==
    /\ DMprimaryWrite_ON' = 0
    /\ UNCHANGED << notRun, olvars, camvars, on, kill, cnt, cntmax, runcfg,
                    pcRun, pcStep, runbufs, runghost >>

\* AOloopControl_run: entry, the loop flags are reset
Run_Start ==
    /\ pcRun = "start"
    /\ kill' = 0
    /\ on' = 0
    /\ DMprimaryWrite_ON' = 0
    /\ ARPFon' = 0
    /\ pcRun' = "outer"
    /\ UNCHANGED << notRun, olnoarpf, camvars, cnt, cntmax, runcfg, pcStep,
                    runbufs, runghost >>

\* outer loop: while(kill == 0)
Run_Outer ==
    /\ pcRun = "outer"
    /\ pcRun' = IF kill = 0 THEN "inner" ELSE "done"
    /\ UNCHANGED << notRun, olvars, camvars, on, kill, cnt, cntmax,
                    DMprimaryWrite_ON, runcfg, pcStep, runbufs, runghost >>

\* inner loop: while(on == 1)
Run_Inner ==
    /\ pcRun = "inner"
    /\ pcRun' = IF on = 1 THEN "compute" ELSE "outer"
    /\ UNCHANGED << notRun, olvars, camvars, on, kill, cnt, cntmax,
                    DMprimaryWrite_ON, runcfg, pcStep, runbufs, runghost >>

\* AOcompute, first call of Read_cam_frame: the frame semaphore is reset
Run_CamInit ==
    /\ pcRun = "compute"
    /\ avcamarraysInit = 0
    /\ md' = TryWaitAll(md, md["wfsim"].sem)
    /\ avcamarraysInit' = 1
    /\ UNCHANGED << notRun, olrest, wfsimNBsem, COMPUTE_GPU_SCALING, pcCam,
                    InitSem, semval, WFScnt, arraytmp, imWFS0, imWFS1,
                    runvars, runghost >>

\* is a camera frame there for Read_cam_frame to take
FrameReady ==
    IF wfsimNBsem = 0 THEN WFScnt # md["wfsim"].cnt0
                      ELSE md["wfsim"].sem > 0

\* the gain, limit and multiplier the modal integrator of AOcompute applies
AOcomputeGain(G) == FMul(gain, G)

AOcomputeLimit(L) == FMul(maxlimit, L)

AOcomputeMult(MF) == FMul(mult, MF)

\* integrate, clamp and leak one modal command with gain g, limit lim and
\* multiplier mf
ModalIntegrateWith(c, g, meas, lim, mf) ==
    LET c1 == FSub(c, FMul(g, meas))
        c2 == IF FLt(c1, FNeg(lim)) THEN FNeg(lim) ELSE c1
        c3 == IF FGt(c2, lim) THEN lim ELSE c2
    IN  FMul(c3, mf)

\* the modal integrator of AOcompute for one mode
ModalIntegrate(c, G, meas, L, MF) ==
    ModalIntegrateWith(c, AOcomputeGain(G), meas, AOcomputeLimit(L),
                       AOcomputeMult(MF))

\* AOcompute from the arrival of the frame: Read_cam_frame takes the frame,
\* the reconstruction gives the measurement and, in two-step mode, the
\* modal command is integrated
Run_AOcompute ==
    /\ pcRun = "compute"
    /\ avcamarraysInit = 1
    /\ FrameReady
    /\ arraytmp' = md["wfsim"].cnt0
    /\ WFScnt' = md["wfsim"].cnt0
    /\ imWFS0' = md["wfsim"].cnt0
    /\ imWFS1' = IF COMPUTE_GPU_SCALING = 0 THEN md["wfsim"].cnt0 ELSE imWFS1
    /\ IF CMMODE = 0
          THEN /\ \E v \in RunMeasVecs : meas_modes' = v
               /\ cmd_modes' =
                    [k \in Modes |-> ModalIntegrate(cmd_modes[k],
                                         GAIN_modes[k], meas_modes'[k],
                                         LIMIT_modes[k], MULTF_modes[k])]
               /\ md' = IncCnt0(ProcessFrameMd(TryWaitAll(md,
                                     md["wfsim"].sem)), "cmd_modes")
               /\ UNCHANGED meas_act
          ELSE /\ \E v \in ActVecs : meas_act' = v
               /\ md' = ProcessFrameMd(TryWaitAll(md, md["wfsim"].sem))
               /\ UNCHANGED << meas_modes, cmd_modes >>
    /\ pcRun' = "dm"
    /\ UNCHANGED << notRun, olrest, wfsimNBsem, COMPUTE_GPU_SCALING,
                    avcamarraysInit, pcCam, InitSem, semval, on, kill, cnt,
                    cntmax, DMprimaryWrite_ON, runcfg, pcStep, dmC,
                    runghost >>

\* the mode-to-actuator multiply of set_DM_modes for actuator i
RECURSIVE MultModes(_, _, _)
MultModes(k, c, i) ==
    IF k < 0 THEN 0
    ELSE FAdd(MultModes(k - 1, c, i), FMul(c[k], DMmodes(k, i)))

\* a DM stage that does not look at the primary write switch
DMWriteAlways == TRUE

\* does the main loop write to the DM in this iteration
DMWriteEnabled == DMprimaryWrite_ON = 1

\* does the two-step DM stage call set_DM_modes
CallsSetDMmodes == DMWriteEnabled /\ FGt(fabs(gain), 0)

\* the direct-mode integrator for one actuator, after the NaN test
DirectIntegrate(d, meas) ==
    LET ma == IF isnan(meas) THEN 0 ELSE meas
        d1 == FMul(FSub(d, FMul(gain, ma)), mult)
        d2 == IF FGt(d1, maxlimit) THEN maxlimit ELSE d1
    IN  IF FLt(d2, FNeg(maxlimit)) THEN FNeg(maxlimit) ELSE d2

\* the DM stage of one iteration
Run_DM ==
    /\ pcRun = "dm"
    /\ IF CMMODE = 0
          THEN /\ IF CallsSetDMmodes
                     THEN /\ dmC' = [i \in Acts |->
                                       MultModes(NBmodes - 1, cmd_modes, i)]
                          /\ md' = PostCntClear(SetWrite(md, "dmC", 1), "dmC")
                     ELSE UNCHANGED << dmC, md >>
               /\ lastDM' = [wrote |-> CallsSetDMmodes,
                             mult |-> CallsSetDMmodes]
               /\ UNCHANGED meas_act
          ELSE /\ IF DMWriteEnabled
                     THEN /\ meas_act' = [i \in Acts |->
                                IF isnan(meas_act[i]) THEN 0 ELSE meas_act[i]]
                          /\ dmC' = [i \in Acts |->
                                       DirectIntegrate(dmC[i], meas_act[i])]
                          /\ md' = PostCntClear(SetWrite(md, "dmC", 1), "dmC")
                     ELSE UNCHANGED << dmC, md, meas_act >>
               /\ lastDM' = [wrote |-> DMWriteEnabled, mult |-> FALSE]
    /\ pcRun' = "count"
    /\ UNCHANGED << notRun, olrest, camvars, on, kill, cnt, cntmax,
                    DMprimaryWrite_ON, runcfg, pcStep, meas_modes,
                    cmd_modes, stepValid, stepStart, stepN >>

\* end of the iteration: count it, and stop at the requested count
Run_Count ==
    /\ pcRun = "count"
    /\ cnt' = cnt + 1
    /\ on' = IF cnt + 1 = cntmax THEN 0 ELSE on
    /\ pcRun' = "inner"
    /\ lastDM' = [wrote |-> FALSE, mult |-> FALSE]
    /\ UNCHANGED << notRun, olvars, camvars, kill, cntmax,
                    DMprimaryWrite_ON, runcfg, pcStep, runbufs, stepValid,
                    stepStart, stepN >>

\* ------------------------------------------------------------------------
\* AOloopControl_AutoTuneGains
\* ------------------------------------------------------------------------
\* The number of samples the tuner takes (5000 in the program) is
\* AutoTuneWindow here; the grid of candidate gains (0.01 to 1 in steps of
\* 5 percent in the program) is a coarser geometric grid.  md["ol"].sem is
\* semaphore 5 of aol_modeval_ol, the one the tuner waits on.
mingain == SCALE \div 5
gainfactstep == 2 * SCALE

FDiv(a, b) ==
    IF isnan(a) \/ isnan(b) \/ b = 0 THEN NaN ELSE TDiv(a * SCALE, b)

\* the candidate gains: mingain times powers of gainfactstep, below 1
RECURSIVE GainGrid(_)
GainGrid(g) ==
    IF g >= SCALE THEN << >> ELSE << g >> \o GainGrid(FMul(g, gainfactstep))

gainval_array == GainGrid(mingain)
NBgain == Len(gainval_array)

\* evolution time scale 0.05 s: gain0 = 1 / (loopfrequ * 0.05)
gain0 == TDiv(20 * SCALE, loopfrequ)

latency == FAdd(hardwlatency_frame, wfsmextrlatency_frame)

gainval1(g) ==
    FMul(FAdd(latency, FDiv(SCALE, g)),
         FAdd(latency, FDiv(SCALE, FAdd(g, gain0))))

gainval2(g) == FDiv(g, FSub(SCALE, g))

\* open-loop values published on aol_modeval_ol while the tuner runs
OLVals == { 0, SCALE }
OLVecs == { [m \in Modes |-> x] : x \in OLVals }
\* what the arrays that AutoTuneGains does not initialise may hold
UninitVecs == { [m \in Modes |-> x] : x \in OLVals }

\* another task publishes an open-loop modal vector
WriteModevalOL ==
    /\ md["ol"].cnt0 < MaxOLposts
    /\ \E v \in OLVecs : modeval_ol' = v
    /\ md' = PostCntClear(md, "ol")
    /\ UNCHANGED << notOL, modeval, gainvars, limvars, cfgvars, localvars,
                    modevalDMnow, modevalDMnowfilt, modevalDM_C, ringhist,
                    modevalDM, modevalDMindex, modevalDMindexl, telemvars,
                    olctl,
                    AUTOTUNE_LIMITS_ON, ARPFon, IDmodevalPF, modevalPF,
                    nbframes, obs >>

\* everything outside AOloopControl_AutoTuneGains
notTune == << camvars, camghost, runvars, runghost, pixvars >>
tunebufs == << array_mvalOL1, array_mvalOL2, array_mvalOL3, array_mvalOL4,
               sig1, sig2, sig4 >>

\* AOloopControl_AUTOTUNE_GAINS_on
AOloopControl_AUTOTUNE_GAINS_on ==
    /\ AUTOTUNE_GAINS_ON' = 1
    /\ UNCHANGED << notTune, olvars, pcTune, atg_cnt, tunebufs, IDout >>

\* AOloopControl_AUTOTUNE_GAINS_off
AOloopControl_AUTOTUNE_GAINS_off ==
    /\ AUTOTUNE_GAINS_ON' = 0
    /\ UNCHANGED << notTune, olvars, pcTune, atg_cnt, tunebufs, IDout >>

\* set-up: the output stream is created, the work arrays are allocated (the
\* first two history arrays and the sums are zeroed, the other two history
\* arrays are not), semaphore 5 of the input is driven to zero
Tune_Start ==
    /\ pcTune = "idle"
    /\ IDout' = ZeroVec
    /\ md' = [md EXCEPT !["ol"].sem = 0,
                        !["out"] = [write |-> 0, cnt0 |-> 0, cnt1 |-> 0,
                                    sem |-> 0]]
    /\ array_mvalOL1' = ZeroVec
    /\ array_mvalOL2' = ZeroVec
    /\ \E u \in UninitVecs : array_mvalOL3' = u
    /\ \E u \in UninitVecs : array_mvalOL4' = u
    /\ sig1' = ZeroVec
    /\ sig2' = ZeroVec
    /\ sig4' = ZeroVec
    /\ atg_cnt' = 0
    /\ pcTune' = "sample"
    /\ UNCHANGED << notTune, olrest, AUTOTUNE_GAINS_ON >>

\* a sample window that closes after the first sample
WindowFullEarly(c) == c >= 1

\* has the whole window of samples been received
WindowFull(c) == c >= AutoTuneWindow

\* square of a difference
SqDiff(a, b) == FMul(FSub(a, b), FSub(a, b))

\* one sample: wait on the semaphore, raise the write flag of the output,
\* shift the history, and accumulate once past the first cntstart samples
Tune_Sample ==
    /\ pcTune = "sample"
    /\ ~WindowFull(atg_cnt)
    /\ md["ol"].sem > 0
    /\ md' = [md EXCEPT !["ol"].sem = @ - 1, !["out"].write = 1]
    /\ array_mvalOL4' = array_mvalOL3
    /\ array_mvalOL3' = array_mvalOL2
    /\ array_mvalOL2' = array_mvalOL1
    /\ array_mvalOL1' = modeval_ol
    /\ IF atg_cnt > cntstart
          THEN /\ sig1' = [m \in Modes |->
                    FAdd(sig1[m], SqDiff(modeval_ol[m], array_mvalOL1[m]))]
               /\ sig2' = [m \in Modes |->
                    FAdd(sig2[m], SqDiff(modeval_ol[m], array_mvalOL2[m]))]
               /\ sig4' = [m \in Modes |->
                    FAdd(sig4[m], SqDiff(modeval_ol[m], array_mvalOL4[m]))]
          ELSE UNCHANGED << sig1, sig2, sig4 >>
    /\ atg_cnt' = atg_cnt + 1
    /\ UNCHANGED << notTune, olrest, AUTOTUNE_GAINS_ON, pcTune, IDout >>

\* the error expected with candidate gain number kk
errarray(asq, sg, kk) ==
    FAdd(FMul(asq, gainval1(gainval_array[kk])),
         FMul(sg, gainval2(gainval_array[kk])))

\* index of the first candidate with the smallest error
RECURSIVE kkminUpTo(_, _, _)
kkminUpTo(asq, sg, kk) ==
    IF kk = 1 THEN 1
    ELSE LET best == kkminUpTo(asq, sg, kk - 1)
         IN  IF FLt(errarray(asq, sg, kk), errarray(asq, sg, best))
                THEN kk ELSE best

\* the recommended gain of one mode from its sums
OptimalGain(s1, s2, s4, n) ==
    LET a1 == FDiv(s1, n * SCALE)
        a2 == FDiv(s2, n * SCALE)
        a4 == FDiv(s4, n * SCALE)
        asq0 == TDiv(FSub(a4, a1), 15)
        asq == IF FLt(asq0, 0) THEN 0 ELSE asq0
        sg == TDiv(FSub(4 * a1, a2), 6)
    IN  gainval_array[kkminUpTo(asq, sg, NBgain)]

\* a tuner that applies its recommendation to the per-mode gains
AppliedGainsRec(rec, G) == rec

\* the per-mode gains after the AUTOTUNE_GAINS_ON branch of the tuner
AppliedGains(rec, G) == G

\* the window is complete: compute the recommendation, publish it
Tune_Publish ==
    /\ pcTune = "sample"
    /\ WindowFull(atg_cnt)
    /\ IDout' = [m \in Modes |->
                   OptimalGain(sig1[m], sig2[m], sig4[m], atg_cnt - cntstart)]
    /\ md' = PostCntClear(SetWrite(md, "out", 1), "out")
    /\ GAIN_modes' = IF AUTOTUNE_GAINS_ON = 1
                        THEN AppliedGains(IDout', GAIN_modes)
                        ELSE GAIN_modes
    /\ pcTune' = "done"
    /\ UNCHANGED << notTune, modeval, gain, mult, gainb, multfb,
                    MULTF_modes, limvars, cfgvars, localvars, bufvars,
                    telemvars, olctl, AUTOTUNE_LIMITS_ON, ARPFon,
                    IDmodevalPF, modevalPF, nbframes, obs,
                    AUTOTUNE_GAINS_ON, atg_cnt, tunebufs >>

\* ------------------------------------------------------------------------
\* AOcompute: the reconstruction on the GPU
\* ------------------------------------------------------------------------
\* The multiply service keeps the product of the matrix with the WFS
\* reference; GPU_loop_MultMat_setup recomputes it when its argument
\* initWFSref is 0.  md["contrM"], md["contrMcact"] and md["wfsref"] are the
\* control matrix of the two-step mode, the combined matrix of the direct
\* mode and the WFS reference, written by other processes.
notGPU == << olrest, camvars, camghost, runvars, runghost, tunevars,
             framevars, totvars, poolvars, stagevars, cmdvars >>

\* a new control matrix is loaded into contrM
AOloopControl_loadCM ==
    /\ md["contrM"].cnt0 < MaxUpdates
    /\ md' = IncCnt0(md, "contrM")
    /\ UNCHANGED << notGPU, gpuvars, gpughost >>

\* a block gain is set and the combined matrix rebuilt; the flag
\* initcontrMcact_GPU it clears is the one of the process that makes the
\* call, which is the process of the main loop or another one
AOloopControl_set_modeblock_gain ==
    /\ md["contrMcact"].cnt0 < MaxUpdates
    /\ md' = IncCnt0(md, "contrMcact")
    /\ \E f \in { 0, initcontrMcact_GPU } : initcontrMcact_GPU' = f
    /\ UNCHANGED << notGPU, GPU0, initWFSref_GPU, contrMcactcnt0,
                    wfsrefcnt0, gpughost >>

\* the WFS zero point is summed into a new reference
AOloopControl_WFSzeropoint_sum_update_loop ==
    /\ md["wfsref"].cnt0 < MaxUpdates
    /\ md' = SetWrite(IncCnt0(SetWrite(md, "wfsref", 1), "wfsref"),
                      "wfsref", 0)
    /\ UNCHANGED << notGPU, gpuvars, gpughost >>

\* the matrix stream the reconstruction multiplies with
MatrixStream == IF CMMODE = 0 THEN "contrM" ELSE "contrMcact"

\* direct mode: has the combined matrix, or the reference, a new counter
NewMatrixDetected ==
    COMPUTE_GPU_SCALING = 1 /\ md["contrMcact"].cnt0 # contrMcactcnt0

NewRefDetected ==
    COMPUTE_GPU_SCALING = 1 /\ md["wfsref"].cnt0 # wfsrefcnt0

\* initWFSref_GPU as the direct mode hands it to the set-up
DirectInitWFSref ==
    IF NewMatrixDetected \/ NewRefDetected \/ initcontrMcact_GPU = 0
    THEN 0 ELSE initWFSref_GPU

\* the argument initWFSref of GPU_loop_MultMat_setup
SetupInitWFSref ==
    IF CMMODE = 0
    THEN IF COMPUTE_GPU_SCALING = 1 THEN initWFSref_GPU ELSE 1
    ELSE DirectInitWFSref

\* one pass of AOcompute through its GPU branch, up to the execute call
AOcompute_GPU ==
    /\ GPU0 # 0
    /\ gpucalls < MaxGPUcalls
    /\ setupRef' = SetupInitWFSref
    /\ initWFSref_GPU' = 1
    /\ IF CMMODE = 0
          THEN /\ md' = IF COMPUTE_GPU_SCALING = 1 /\ initWFSref_GPU = 0
                           THEN PostCntClear(SetWrite(md, "imWFS0", 1),
                                             "imWFS0")
                           ELSE md
               /\ UNCHANGED << initcontrMcact_GPU, contrMcactcnt0,
                               wfsrefcnt0 >>
          ELSE /\ contrMcactcnt0' = IF NewMatrixDetected
                                       THEN md["contrMcact"].cnt0
                                       ELSE contrMcactcnt0
               /\ wfsrefcnt0' = IF NewRefDetected THEN md["wfsref"].cnt0
                                                  ELSE wfsrefcnt0
               /\ initcontrMcact_GPU' = 1
               /\ UNCHANGED md
    /\ changedCM' = (gpucalls >= 1 /\ md[MatrixStream].cnt0 # seenCM)
    /\ changedRef' = (gpucalls >= 1 /\ md["wfsref"].cnt0 # seenRef)
    /\ seenCM' = md[MatrixStream].cnt0
    /\ seenRef' = md["wfsref"].cnt0
    /\ gpucalls' = gpucalls + 1
    /\ UNCHANGED << notGPU, GPU0 >>

InitGPU ==
    /\ initWFSref_GPU = 0
    /\ initcontrMcact_GPU = 0
    /\ contrMcactcnt0 = -1
    /\ wfsrefcnt0 = -1
    /\ setupRef = 1
    /\ seenCM = 0
    /\ seenRef = 0
    /\ changedCM = FALSE
    /\ changedRef = FALSE
    /\ gpucalls = 0

\* ------------------------------------------------------------------------
\* Read_cam_frame: the pixel values
\* ------------------------------------------------------------------------
\* Pixel values and the normalisation floor are whole numbers; a
\* normalised pixel is the pair << numerator, divisor >> of the quotient
\* the code forms, the divisor being 1 when the frame is not normalised.
Pixels == 0 .. (sizeWFS - 1)

RawFrames == { [i \in Pixels |-> 100 * (i + 1)],
               [i \in Pixels |-> 100 * (sizeWFS - i)],
               [i \in Pixels |-> 10] }
DarkFrames == { [i \in Pixels |-> 10], [i \in Pixels |-> 0] }
\* no mask, or a mask that keeps the first two pixels
MaskVals == { [id |-> -1, F |-> [i \in Pixels |-> 0]],
              [id |-> 1, F |-> [i \in Pixels |-> IF i < 2 THEN 1 ELSE 0]] }
FloorVals == { 0, 5 }

notFrameTot == << olvars, camvars, camghost, runvars, runghost, tunevars,
                  gpuvars, gpughost, poolvars, stagevars, cmdvars >>
notFrame == << notFrameTot, totvars >>

\* a camera frame is taken by Read_cam_frame(loop, RM = 0, normalize, ...)
Frame_Load ==
    /\ pcFrame = "idle"
    /\ pixframes < MaxPixFrames
    /\ \E f \in RawFrames : rawframe' = f
    /\ \E n \in { 0, 1 } : normalize' = n
    /\ pcFrame' = "dark"
    /\ UNCHANGED << notFrame, dark, wfsmask, WFSnormfloor,
                    AOLCOMPUTE_TOTAL_ASYNC, AOLCOMPUTE_TOTAL_INIT, IMTOTAL,
                    WFStotalflux, pix_imWFS0, pix_imWFS1, pixframes >>

\* a frame that is copied without its dark
DarkSubtractNone(raw, drk) == raw

DarkSubtract(raw, drk) == raw - drk

RECURSIVE SumPix(_, _)
SumPix(n, f) == IF n = 0 THEN 0 ELSE SumPix(n - 1, f) + f[n - 1]

\* total of the image, over the mask when there is one
ImageTotal(im) ==
    IF wfsmask.id # -1
    THEN SumPix(sizeWFS, [i \in Pixels |-> im[i] * wfsmask.F[i]])
    ELSE SumPix(sizeWFS, im)

Frame_DarkSubtract ==
    /\ pcFrame = "dark"
    /\ pix_imWFS0' = [i \in Pixels |-> DarkSubtract(rawframe[i], dark[i])]
    /\ frametotals' = frametotals \cup { ImageTotal(pix_imWFS0') }
    /\ pcFrame' = "total"
    /\ UNCHANGED << notFrameTot, rawframe, framecfg, AOLCOMPUTE_TOTAL_INIT,
                    IMTOTAL, WFStotalflux, pix_imWFS1, pixframes,
                    AOLCOMPUTE_TOTAL_ASYNC_THREADinit, TOTAL_ASYNC_sem,
                    pcTotal, iiTotal >>

\* is the total computed by Read_cam_frame itself
TotalInMainThread == AOLCOMPUTE_TOTAL_ASYNC = 0 \/ AOLCOMPUTE_TOTAL_INIT = 0

Frame_Total ==
    /\ pcFrame = "total"
    /\ IF normalize = 1
          THEN IF TotalInMainThread
                  THEN /\ IMTOTAL' = ImageTotal(pix_imWFS0)
                       /\ WFStotalflux' = ImageTotal(pix_imWFS0)
                       /\ AOLCOMPUTE_TOTAL_INIT' = 1
                       /\ UNCHANGED << AOLCOMPUTE_TOTAL_ASYNC_THREADinit,
                                       TOTAL_ASYNC_sem, pcTotal >>
                  ELSE /\ WFStotalflux' = IMTOTAL
                       /\ AOLCOMPUTE_TOTAL_ASYNC_THREADinit' = 1
                       /\ pcTotal' =
                             IF AOLCOMPUTE_TOTAL_ASYNC_THREADinit = 0
                             THEN "wait" ELSE pcTotal
                       /\ TOTAL_ASYNC_sem' =
                             IF AOLCOMPUTE_TOTAL_ASYNC_THREADinit = 0
                             THEN 1
                             ELSE IF TOTAL_ASYNC_sem < SEMAPHORE_MAXVAL
                                  THEN TOTAL_ASYNC_sem + 1
                                  ELSE TOTAL_ASYNC_sem
                       /\ UNCHANGED << IMTOTAL, AOLCOMPUTE_TOTAL_INIT >>
          ELSE UNCHANGED << IMTOTAL, WFStotalflux, AOLCOMPUTE_TOTAL_INIT,
                            AOLCOMPUTE_TOTAL_ASYNC_THREADinit,
                            TOTAL_ASYNC_sem, pcTotal >>
    /\ pcFrame' = "normalize"
    /\ UNCHANGED << notFrameTot, rawframe, framecfg, pix_imWFS0, pix_imWFS1,
                    pixframes, iiTotal, frametotals >>

\* what the thread leaves alone
imtotalrest == << notFrameTot, rawframe, framecfg, AOLCOMPUTE_TOTAL_INIT,
                  WFStotalflux, pix_imWFS0, pix_imWFS1, pcFrame, pixframes,
                  AOLCOMPUTE_TOTAL_ASYNC_THREADinit, frametotals >>

\* the thread is woken: sem_wait, then IMTOTAL = 0.0
Imtotal_Start ==
    /\ pcTotal = "wait"
    /\ TOTAL_ASYNC_sem > 0
    /\ TOTAL_ASYNC_sem' = TOTAL_ASYNC_sem - 1
    /\ IMTOTAL' = 0
    /\ iiTotal' = 0
    /\ pcTotal' = "sum"
    /\ UNCHANGED imtotalrest

\* one pass of the loop: IMTOTAL += imWFS0[ii], times the mask if any
Imtotal_Add ==
    /\ pcTotal = "sum"
    /\ iiTotal < sizeWFS
    /\ IMTOTAL' = IMTOTAL + (IF wfsmask.id # -1
                                THEN pix_imWFS0[iiTotal] * wfsmask.F[iiTotal]
                                ELSE pix_imWFS0[iiTotal])
    /\ iiTotal' = iiTotal + 1
    /\ UNCHANGED << imtotalrest, TOTAL_ASYNC_sem, pcTotal >>

\* the loop is over; the thread waits for the next post
Imtotal_Done ==
    /\ pcTotal = "sum"
    /\ iiTotal = sizeWFS
    /\ pcTotal' = "wait"
    /\ UNCHANGED << imtotalrest, TOTAL_ASYNC_sem, IMTOTAL, iiTotal >>

\* the thread that computes the total in the background
compute_function_imtotal ==
    \/ Imtotal_Start
    \/ Imtotal_Add
    \/ Imtotal_Done

\* the divisor 1 / totalinv
NormDivisor ==
    IF normalize = 1 THEN WFStotalflux + WFSnormfloor * sizeWFS ELSE 1

Frame_Normalize ==
    /\ pcFrame = "normalize"
    /\ pix_imWFS1' =
          IF COMPUTE_GPU_SCALING = 0
          THEN [i \in Pixels |-> << pix_imWFS0[i], NormDivisor >>]
          ELSE pix_imWFS1
    /\ pixframes' = pixframes + 1
    /\ pcFrame' = "idle"
    /\ UNCHANGED << notFrame, rawframe, framecfg, AOLCOMPUTE_TOTAL_INIT,
                    IMTOTAL, WFStotalflux, pix_imWFS0 >>

InitFrame ==
    /\ rawframe = [i \in Pixels |-> 0]
    /\ dark \in DarkFrames
    /\ wfsmask \in MaskVals
    /\ WFSnormfloor \in FloorVals
    /\ normalize = 0
    /\ AOLCOMPUTE_TOTAL_ASYNC \in { 0, 1 }
    /\ AOLCOMPUTE_TOTAL_INIT = 0
    /\ IMTOTAL = 0
    /\ WFStotalflux = 0
    /\ pix_imWFS0 = [i \in Pixels |-> 0]
    /\ pix_imWFS1 = [i \in Pixels |-> << 0, 1 >>]
    /\ pcFrame = "idle"
    /\ pixframes = 0
    /\ AOLCOMPUTE_TOTAL_ASYNC_THREADinit = 0
    /\ TOTAL_ASYNC_sem = 0
    /\ pcTotal = "none"
    /\ iiTotal = 0
    /\ frametotals = { }

\* no reconstruction on the GPU
IdleGPU ==
    /\ InitGPU
    /\ GPU0 = 0

\* no pixel arithmetic
IdleFrame ==
    /\ InitFrame
    /\ dark = [i \in Pixels |-> 0]
    /\ wfsmask.id = -1
    /\ WFSnormfloor = 0
    /\ AOLCOMPUTE_TOTAL_ASYNC = 0

\* ------------------------------------------------------------------------
\* Read_cam_frame: dark subtraction by the thread pool (loop # 0, RM = 0)
\* ------------------------------------------------------------------------
COMPUTE_DARK_SUBTRACT_NBTHREADS == 1

\* the threads thread_dark_subtract[k], and the values ti takes
Workers == 0 .. (COMPUTE_DARK_SUBTRACT_NBTHREADS - 1)
ThreadIndices == 0 .. COMPUTE_DARK_SUBTRACT_NBTHREADS

notPool == << olvars, camvars, camghost, runvars, runghost, tunevars,
              gpuvars, gpughost, totvars, stagevars, cmdvars >>
poolframe == << framecfg, AOLCOMPUTE_TOTAL_INIT, IMTOTAL, WFStotalflux,
                pix_imWFS1, pcFrame >>

\* the pixels iistart .. iiend - 1 of the thread that holds index t
iistart(t) == TDiv(t * sizeWFS, COMPUTE_DARK_SUBTRACT_NBTHREADS)
iiend(t) == TDiv((t + 1) * sizeWFS, COMPUTE_DARK_SUBTRACT_NBTHREADS)
ThreadPixels(t) == { ii \in Pixels : iistart(t) <= ii /\ ii < iiend(t) }

\* the frame is copied to arraytmp, status 1, and the threaded path begins
Pool_Load ==
    /\ pcPool = "idle"
    /\ pixframes < MaxPixFrames
    /\ \E f \in RawFrames : rawframe' = f
    /\ subcnt' = [ii \in Pixels |-> 0]
    /\ status' = 1
    /\ ti' = 0
    /\ pcPool' = IF AOLCOMPUTE_DARK_SUBTRACT_THREADinit = 0
                    THEN "create" ELSE "post"
    /\ UNCHANGED << notPool, poolframe, pix_imWFS0, pixframes,
                    AOLCOMPUTE_DARK_SUBTRACT_THREADinit, threadindex,
                    pcWorker, DARK_SUBTRACT_sem, DARK_SUBTRACT_RESULT_sem >>

\* pthread_create(..., (void*) &ti) and the two sem_init
Pool_Create ==
    /\ pcPool = "create"
    /\ ti < COMPUTE_DARK_SUBTRACT_NBTHREADS
    /\ pcWorker' = [pcWorker EXCEPT ![ti] = "start"]
    /\ DARK_SUBTRACT_sem' = [DARK_SUBTRACT_sem EXCEPT ![ti] = 0]
    /\ DARK_SUBTRACT_RESULT_sem' = [DARK_SUBTRACT_RESULT_sem EXCEPT ![ti] = 0]
    /\ pcPool' = "sleep"
    /\ UNCHANGED << notPool, framevars, ti,
                    AOLCOMPUTE_DARK_SUBTRACT_THREADinit, threadindex,
                    subcnt, status >>

\* usleep(100) is over: ti++
Pool_Sleep ==
    /\ pcPool = "sleep"
    /\ ti' = ti + 1
    /\ pcPool' = "create"
    /\ UNCHANGED << notPool, framevars,
                    AOLCOMPUTE_DARK_SUBTRACT_THREADinit, threadindex,
                    pcWorker, DARK_SUBTRACT_sem, DARK_SUBTRACT_RESULT_sem,
                    subcnt, status >>

\* the creation loop ends, and the loop over the threads starts at ti = 0
Pool_Created ==
    /\ pcPool = "create"
    /\ ti >= COMPUTE_DARK_SUBTRACT_NBTHREADS
    /\ AOLCOMPUTE_DARK_SUBTRACT_THREADinit' = 1
    /\ ti' = 0
    /\ pcPool' = "post"
    /\ UNCHANGED << notPool, framevars, threadindex, pcWorker,
                    DARK_SUBTRACT_sem, DARK_SUBTRACT_RESULT_sem, subcnt,
                    status >>

\* thread ti is told to start
Pool_Post ==
    /\ pcPool = "post"
    /\ ti < COMPUTE_DARK_SUBTRACT_NBTHREADS
    /\ DARK_SUBTRACT_sem' =
          [DARK_SUBTRACT_sem EXCEPT
              ![ti] = IF @ < SEMAPHORE_MAXVAL THEN @ + 1 ELSE @]
    /\ pcPool' = "waitres"
    /\ UNCHANGED << notPool, framevars, ti,
                    AOLCOMPUTE_DARK_SUBTRACT_THREADinit, threadindex,
                    pcWorker, DARK_SUBTRACT_RESULT_sem, subcnt, status >>

\* sem_wait on the result semaphore of thread ti
Pool_WaitResult ==
    /\ pcPool = "waitres"
    /\ DARK_SUBTRACT_RESULT_sem[ti] > 0
    /\ DARK_SUBTRACT_RESULT_sem' = [DARK_SUBTRACT_RESULT_sem EXCEPT ![ti] = @ - 1]
    /\ ti' = ti + 1
    /\ pcPool' = "post"
    /\ UNCHANGED << notPool, framevars,
                    AOLCOMPUTE_DARK_SUBTRACT_THREADinit, threadindex,
                    pcWorker, DARK_SUBTRACT_sem, subcnt, status >>

\* every thread was waited for: status 2
Pool_Publish ==
    /\ pcPool = "post"
    /\ ti >= COMPUTE_DARK_SUBTRACT_NBTHREADS
    /\ status' = 2
    /\ pixframes' = pixframes + 1
    /\ pcPool' = "idle"
    /\ UNCHANGED << notPool, poolframe, rawframe, pix_imWFS0, ti,
                    AOLCOMPUTE_DARK_SUBTRACT_THREADinit, threadindex,
                    pcWorker, DARK_SUBTRACT_sem, DARK_SUBTRACT_RESULT_sem,
                    subcnt >>

\* compute_function_dark_subtract: threadindex = *index, read from the ti
\* of the main thread at whatever value it has when the thread gets there
Worker_ReadIndex(k) ==
    /\ pcWorker[k] = "start"
    /\ threadindex' = [threadindex EXCEPT ![k] = ti]
    /\ pcWorker' = [pcWorker EXCEPT ![k] = "wait"]
    /\ UNCHANGED << notPool, framevars, ti,
                    AOLCOMPUTE_DARK_SUBTRACT_THREADinit, DARK_SUBTRACT_sem,
                    DARK_SUBTRACT_RESULT_sem, pcPool, subcnt, status >>

\* sem_wait on its own semaphore, then the subtraction of its pixels
Worker_Subtract(k) ==
    /\ pcWorker[k] = "wait"
    /\ DARK_SUBTRACT_sem[threadindex[k]] > 0
    /\ DARK_SUBTRACT_sem' =
          [DARK_SUBTRACT_sem EXCEPT ![threadindex[k]] = @ - 1]
    /\ pix_imWFS0' =
          [ii \in Pixels |->
              IF ii \in ThreadPixels(threadindex[k])
              THEN DarkSubtract(rawframe[ii], dark[ii])
              ELSE pix_imWFS0[ii]]
    /\ subcnt' =
          [ii \in Pixels |->
              IF ii \in ThreadPixels(threadindex[k])
              THEN subcnt[ii] + 1 ELSE subcnt[ii]]
    /\ pcWorker' = [pcWorker EXCEPT ![k] = "post"]
    /\ UNCHANGED << notPool, poolframe, rawframe, pixframes, ti,
                    AOLCOMPUTE_DARK_SUBTRACT_THREADinit, threadindex,
                    DARK_SUBTRACT_RESULT_sem, pcPool, status >>

\* the thread signals that its pixels are done
Worker_Post(k) ==
    /\ pcWorker[k] = "post"
    /\ DARK_SUBTRACT_RESULT_sem' =
          [DARK_SUBTRACT_RESULT_sem EXCEPT
              ![threadindex[k]] = IF @ < SEMAPHORE_MAXVAL THEN @ + 1 ELSE @]
    /\ pcWorker' = [pcWorker EXCEPT ![k] = "wait"]
    /\ UNCHANGED << notPool, framevars, ti,
                    AOLCOMPUTE_DARK_SUBTRACT_THREADinit, threadindex,
                    DARK_SUBTRACT_sem, pcPool, subcnt, status >>

\* no thread created yet
InitPool ==
    /\ ti = 0
    /\ AOLCOMPUTE_DARK_SUBTRACT_THREADinit = 0
    /\ threadindex = [k \in Workers |-> 0]
    /\ pcWorker = [k \in Workers |-> "none"]
    /\ DARK_SUBTRACT_sem = [t \in ThreadIndices |-> 0]
    /\ DARK_SUBTRACT_RESULT_sem = [t \in ThreadIndices |-> 0]
    /\ pcPool = "idle"
    /\ subcnt = [ii \in Pixels |-> 0]
    /\ status = 0

\* ------------------------------------------------------------------------
\* AOloopControl_run, AOcompute and Read_cam_frame: the stage code
\* ------------------------------------------------------------------------
\* One iteration of the main loop, one step per store to AOconf[loop].status.
notStage == << olvars, camvars, camghost, tunevars, gpuvars, gpughost,
               framevars, totvars, ti, AOLCOMPUTE_DARK_SUBTRACT_THREADinit,
               threadindex, pcWorker, DARK_SUBTRACT_sem,
               DARK_SUBTRACT_RESULT_sem, pcPool, subcnt, kill, cntmax,
               DMprimaryWrite_ON, runcfg, pcStep, runbufs, runghost,
               cmdvars >>

\* the statement at `from` stores `code` and the iteration goes on at `to`
StageTo(from, code, to) ==
    /\ pcRun = "compute"
    /\ pcStage = from
    /\ status' = code
    /\ pcStage' = to
    /\ UNCHANGED << notStage, on, cnt, pcRun, stageiter >>

\* AOcompute is entered
Stage_WaitDark ==
    /\ stageiter < MaxStageIter
    /\ StageTo("enter", 19, "call")

\* Read_cam_frame(loop, 0, ...)
Stage_WaitImage == StageTo("call", 20, "wait")

Stage_LoadImage == StageTo("wait", 0, "load")

Stage_DarkSubtract == StageTo("load", 1, "dark")

Stage_Total == StageTo("dark", 2, "total")

Stage_Normalize == StageTo("total", 3, "norm")

\* AOcompute after Read_cam_frame
Stage_RemoveRef == StageTo("norm", 4, "ref")

Stage_Multiply == StageTo("ref", 5, "mult")

\* is the matrix multiplication done on the GPU
UsesGPU == GPU0 # 0

\* status as GPU_loop_MultMat_execute(0, &AOconf[loop].status, ...) leaves it
GPU_loop_MultMat_execute(s) == s

\* the multiplication: on the GPU status 6 is stored before the execution
Stage_Execute ==
    /\ pcRun = "compute"
    /\ pcStage = "mult"
    /\ status' = IF UsesGPU THEN GPU_loop_MultMat_execute(6) ELSE status
    /\ pcStage' = "gains"
    /\ UNCHANGED << notStage, on, cnt, pcRun, stageiter >>

Stage_Gains == StageTo("gains", 11, "ret")

\* AOloopControl_run after AOcompute
Stage_Returned == StageTo("ret", 12, "dm")

\* a DM stage that does not look at the mode
DMWriteAnyMode == DMWriteEnabled

\* does the iteration integrate the actuator commands and write the DM itself
DirectDMWrite == CMMODE # 0 /\ DMWriteEnabled

Stage_Limits ==
    /\ pcRun = "compute"
    /\ pcStage = "dm"
    /\ status' = IF DirectDMWrite THEN 13 ELSE status
    /\ pcStage' = IF DirectDMWrite THEN "write" ELSE "end"
    /\ UNCHANGED << notStage, on, cnt, pcRun, stageiter >>

Stage_WriteDM == StageTo("write", 14, "end")

\* end of the iteration: status 18, then the count as in Run_Count
Stage_End ==
    /\ pcRun = "compute"
    /\ pcStage = "end"
    /\ status' = 18
    /\ cnt' = cnt + 1
    /\ on' = IF cnt + 1 = cntmax THEN 0 ELSE on
    /\ pcRun' = "inner"
    /\ pcStage' = "enter"
    /\ stageiter' = stageiter + 1
    /\ UNCHANGED notStage

InitStage ==
    /\ pcStage = "enter"
    /\ stageiter = 0

\* no command under way; the configuration memory is zero until a
\* configuration is loaded
InitCmd ==
    /\ pcReset = "idle"
    /\ mbReset = 0
    /\ confNBblock = 0
    /\ stray = {}
    /\ lastrange = [fn |-> "none", m0 |-> 0, m1 |-> 0, val |-> 0, tick |-> 0]

IdlePix == IdleGPU /\ IdleFrame /\ InitPool /\ InitStage /\ InitCmd

\* ------------------------------------------------------------------------
\* Specifications
\* ------------------------------------------------------------------------
\* the integrator task at rest with one fixed configuration
IdleOL ==
    /\ InitOL
    /\ gain = SCALE
    /\ IDmodevalPF = -1

\* Read_cam_frame has not been called yet
InitCam ==
    /\ wfsimNBsem \in { 0, 1 }
    /\ COMPUTE_GPU_SCALING \in { 0, 1 }
    /\ avcamarraysInit = 0
    /\ pcCam = "idle"
    /\ InitSem = 0
    /\ semval = 0
    /\ WFScnt = 0
    /\ arraytmp = 0
    /\ imWFS0 = 0
    /\ imWFS1 = 0
    /\ prodStopped = FALSE
    /\ callsAfterStop = 0
    /\ retAfterStop = 0
    /\ semAtCall = 0
    /\ resetInCall = FALSE
    /\ callAfterStop = FALSE

IdleCam ==
    /\ InitCam
    /\ wfsimNBsem = 1
    /\ COMPUTE_GPU_SCALING = 0

\* AOloopControl_run is about to start on the memory that
\* AOloopControl_InitializeMemory and the configuration load left
InitRun ==
    /\ on = 0
    /\ kill = 0
    /\ cnt = 0
    /\ cntmax = 0
    /\ DMprimaryWrite_ON = 0
    /\ CMMODE \in { 0, 1 }
    /\ maxlimit = TDiv(3 * SCALE, 10)
    /\ pcRun = "start"
    /\ pcStep = "idle"
    /\ dmC = [i \in Acts |-> 0]
    /\ meas_act = [i \in Acts |-> 0]
    /\ meas_modes = ZeroVec
    /\ cmd_modes = ZeroVec
    /\ lastDM = [wrote |-> FALSE, mult |-> FALSE]
    /\ stepValid = FALSE
    /\ stepStart = 0
    /\ stepN = 0

IdleRun ==
    /\ InitRun
    /\ CMMODE = 0

\* AOloopControl_AutoTuneGains has not been started
InitTune ==
    /\ AUTOTUNE_GAINS_ON = 0
    /\ pcTune = "idle"
    /\ atg_cnt = 0
    /\ array_mvalOL1 = ZeroVec
    /\ array_mvalOL2 = ZeroVec
    /\ array_mvalOL3 = ZeroVec
    /\ array_mvalOL4 = ZeroVec
    /\ sig1 = ZeroVec
    /\ sig2 = ZeroVec
    /\ sig4 = ZeroVec
    /\ IDout = ZeroVec

Init ==
    /\ InitMd /\ InitOL /\ InitCam /\ InitRun /\ InitTune /\ InitGPU
    /\ GPU0 = 0 /\ InitFrame

NextOL ==
    \/ WriteModeval
    \/ WritePF
    \/ AOloopControl_AUTOTUNE_LIMITS_on
    \/ AOloopControl_AUTOTUNE_LIMITS_off
    \/ AOloopControl_ARPFon
    \/ AOloopControl_ARPFoff
    \/ OL_Wait
    \/ OL_Update
    \/ OL_Blend
    \/ OL_Filter
    \/ OL_PublishNow
    \/ OL_FiltPost
    \/ OL_FiltCnt
    \/ OL_FiltClr
    \/ OL_Commit
    \/ OL_Estimate

\* the integrator task in every configuration, the camera side at rest
InitSpecOL ==
    InitMd /\ InitOL /\ IdleCam /\ IdleRun /\ InitTune /\ IdlePix

SpecOL == InitSpecOL /\ [][NextOL]_vars

\* the integrator task, the reconstructor and one subscriber of
\* aol_modeval_dm_now_filt
NextStream ==
    \/ WriteModeval
    \/ ConsumerWake
    \/ OL_Wait
    \/ OL_Update
    \/ OL_Blend
    \/ OL_Filter
    \/ OL_PublishNow
    \/ OL_FiltPost
    \/ OL_FiltCnt
    \/ OL_FiltClr
    \/ OL_Commit
    \/ OL_Estimate

InitSpecStream ==
    InitMd /\ IdleOL /\ IdleCam /\ IdleRun /\ InitTune /\ IdlePix

SpecStream == InitSpecStream /\ [][NextStream]_vars

\* the camera and Read_cam_frame called again and again
NextCam ==
    \/ WFS_Post
    \/ WFS_Stop
    \/ Cam_Call
    \/ Cam_Init0
    \/ Cam_Try0
    \/ Cam_Init1
    \/ Cam_Try1
    \/ Cam_Wait
    \/ Cam_GetValue
    \/ Cam_Drain
    \/ Cam_Load
    \/ Cam_Process

InitSpecCam ==
    InitMd /\ IdleOL /\ InitCam /\ IdleRun /\ InitTune /\ IdlePix

SpecCam == InitSpecCam /\ [][NextCam]_vars

\* the main loop, the camera and the loop control interface
NextRun ==
    \/ WFS_Post
    \/ AOloopControl_loopon
    \/ AOloopControl_loopoff
    \/ AOloopControl_loopkill
    \/ AOloopControl_loopstep
    \/ AOloopControl_loopstep_on
    \/ AOloopControl_loopstep_return
    \/ AOloopControl_DMprimaryWrite_on
    \/ AOloopControl_DMprimaryWrite_off
    \/ Run_Start
    \/ Run_Outer
    \/ Run_Inner
    \/ Run_CamInit
    \/ Run_AOcompute
    \/ Run_DM
    \/ Run_Count

InitSpecRun ==
    /\ InitMd /\ InitOL /\ gain \in {0, SCALE} /\ IDmodevalPF = -1
    /\ IdleCam /\ InitRun /\ InitTune /\ IdlePix

SpecRun == InitSpecRun /\ [][NextRun]_vars

\* the gain tuner, the task publishing the open-loop stream and the
\* operator's gain auto-tune switch
NextTune ==
    \/ WriteModevalOL
    \/ AOloopControl_AUTOTUNE_GAINS_on
    \/ AOloopControl_AUTOTUNE_GAINS_off
    \/ Tune_Start
    \/ Tune_Sample
    \/ Tune_Publish

InitSpecTune ==
    /\ InitMd /\ InitOL /\ IDmodevalPF = -1 /\ IdleCam /\ IdleRun
    /\ InitTune /\ IdlePix

SpecTune == InitSpecTune /\ [][NextTune]_vars

\* the integrator task under several settings of the gains, multipliers and
\* limits, as the block and mode setters leave them before it runs
IntCfgs ==
    { [g |-> SCALE, gb |-> SCALE, gm |-> SCALE, mu |-> SCALE, mb |-> SCALE,
       mm |-> SCALE, lb |-> SCALE, lm |-> SCALE],
      [g |-> SCALE \div 5, gb |-> SCALE \div 2, gm |-> 2 * SCALE,
       mu |-> SCALE, mb |-> SCALE, mm |-> SCALE, lb |-> SCALE,
       lm |-> SCALE],
      [g |-> SCALE, gb |-> SCALE, gm |-> SCALE, mu |-> SCALE,
       mb |-> SCALE \div 2, mm |-> SCALE, lb |-> SCALE, lm |-> SCALE],
      [g |-> SCALE, gb |-> SCALE, gm |-> SCALE, mu |-> SCALE, mb |-> SCALE,
       mm |-> SCALE, lb |-> SCALE \div 2, lm |-> 2 * SCALE],
      [g |-> SCALE, gb |-> SCALE, gm |-> SCALE, mu |-> SCALE, mb |-> SCALE,
       mm |-> SCALE, lb |-> SCALE, lm |-> 0] }

InitOLTuning(c) ==
    /\ gain = c.g
    /\ gainb = [b \in Blocks |-> c.gb]
    /\ GAIN_modes = [m \in Modes |-> c.gm]
    /\ mult = c.mu
    /\ multfb = [b \in Blocks |-> c.mb]
    /\ MULTF_modes = [m \in Modes |-> c.mm]
    /\ limitb = [b \in Blocks |-> c.lb]
    /\ LIMIT_modes = [m \in Modes |-> c.lm]

IntVals == { -2 * SCALE, 0, NaN }
IntVecs == { [m \in Modes |-> x] : x \in IntVals }

WriteModevalInt == WriteModevalFrom(IntVecs, MaxIterInt)

OL_WaitInt == OL_WaitUpTo(MaxIterInt)

NextInt ==
    \/ WriteModevalInt
    \/ AOloopControl_AUTOTUNE_LIMITS_on
    \/ AOloopControl_AUTOTUNE_LIMITS_off
    \/ OL_WaitInt
    \/ OL_Update
    \/ OL_Blend
    \/ OL_Filter
    \/ OL_PublishNow
    \/ OL_FiltPost
    \/ OL_FiltCnt
    \/ OL_FiltClr
    \/ OL_Commit
    \/ OL_Estimate

InitSpecInt ==
    /\ InitMd
    /\ \E c \in IntCfgs : InitOLTuning(c)
    /\ InitOLLatency(TDiv(22 * SCALE, 10), 0)
    /\ InitOLSwitches /\ IDmodevalPF = -1
    /\ InitOLState
    /\ IdleCam /\ IdleRun /\ InitTune /\ IdlePix

SpecInt == InitSpecInt /\ [][NextInt]_vars

\* the main loop in two-step mode under the same settings of the gains,
\* multipliers and limits
NextModal ==
    \/ WFS_Post
    \/ AOloopControl_loopon
    \/ AOloopControl_loopoff
    \/ AOloopControl_DMprimaryWrite_on
    \/ AOloopControl_DMprimaryWrite_off
    \/ Run_Start
    \/ Run_Outer
    \/ Run_Inner
    \/ Run_CamInit
    \/ Run_AOcompute
    \/ Run_DM
    \/ Run_Count

InitSpecModal ==
    /\ InitMd
    /\ \E c \in IntCfgs : InitOLTuning(c)
    /\ InitOLLatency(TDiv(22 * SCALE, 10), 0)
    /\ InitOLSwitches /\ IDmodevalPF = -1
    /\ InitOLState
    /\ IdleCam /\ InitRun /\ CMMODE = 0 /\ InitTune /\ IdlePix

SpecModal == InitSpecModal /\ [][NextModal]_vars

\* the integrator task over more iterations than the ring has slots, for
\* several configured latencies; the first measurements are free, the later
\* ones repeat the last one
LatencyVals == { TDiv(22 * SCALE, 10), TDiv(205 * SCALE, 10),
                 -TDiv(15 * SCALE, 10) }

RingCfg ==
    [g |-> SCALE, gb |-> SCALE, gm |-> SCALE, mu |-> SCALE, mb |-> SCALE,
     mm |-> SCALE, lb |-> SCALE, lm |-> 100 * SCALE]

RingVals == { -SCALE, 0, SCALE }
RingVecs == { [m \in Modes |-> x] : x \in RingVals }

WriteModevalRing ==
    /\ pcOL = "wait"
    /\ md["modeval"].sem = 0
    /\ WriteModevalFrom(IF nbframes < MaxRingFree THEN RingVecs
                                                   ELSE { modeval },
                        MaxIterRing)

OL_WaitRing == OL_WaitUpTo(MaxIterRing)

NextRing ==
    \/ WriteModevalRing
    \/ OL_WaitRing
    \/ OL_Update
    \/ OL_Blend
    \/ OL_Filter
    \/ OL_PublishNow
    \/ OL_FiltPost
    \/ OL_FiltCnt
    \/ OL_FiltClr
    \/ OL_Commit
    \/ OL_Estimate

InitSpecRing ==
    /\ InitMd
    /\ InitOLTuning(RingCfg)
    /\ \E l \in LatencyVals : InitOLLatency(l, 0)
    /\ InitOLSwitches /\ IDmodevalPF = -1
    /\ InitOLState
    /\ IdleCam /\ IdleRun /\ InitTune /\ IdlePix

SpecRing == InitSpecRing /\ [][NextRing]_vars

\* the reconstruction on the GPU called again and again, while the control
\* matrices and the WFS reference are rewritten
NextGPU ==
    \/ AOloopControl_loadCM
    \/ AOloopControl_set_modeblock_gain
    \/ AOloopControl_WFSzeropoint_sum_update_loop
    \/ AOcompute_GPU

InitSpecGPU ==
    /\ InitMd /\ IdleOL
    /\ InitCam /\ wfsimNBsem = 1
    /\ InitRun /\ InitTune
    /\ InitGPU /\ GPU0 = 1
    /\ IdleFrame /\ InitPool /\ InitStage /\ InitCmd

SpecGPU == InitSpecGPU /\ [][NextGPU]_vars

\* Read_cam_frame called again and again on frames of sizeWFS pixels
NextNorm ==
    \/ Frame_Load
    \/ Frame_DarkSubtract
    \/ Frame_Total
    \/ compute_function_imtotal
    \/ Frame_Normalize

InitSpecNorm ==
    /\ InitMd /\ IdleOL
    /\ InitCam /\ wfsimNBsem = 1
    /\ IdleRun /\ InitTune
    /\ IdleGPU
    /\ InitFrame /\ InitPool /\ InitStage /\ InitCmd

SpecNorm == InitSpecNorm /\ [][NextNorm]_vars

\* the integrator task with the predictive filter: measurements and
\* predictions arrive from two other processes, the blend is switched on
\* and off
NextPF ==
    \/ WriteModevalInt
    \/ WritePF
    \/ AOloopControl_ARPFon
    \/ AOloopControl_ARPFoff
    \/ OL_WaitInt
    \/ OL_Update
    \/ OL_Blend
    \/ OL_Filter
    \/ OL_PublishNow
    \/ OL_FiltPost
    \/ OL_FiltCnt
    \/ OL_FiltClr
    \/ OL_Commit
    \/ OL_Estimate

\* the statements of one iteration after the measurement was received
IterationSteps ==
    \/ OL_Update
    \/ OL_Blend
    \/ OL_Filter
    \/ OL_PublishNow
    \/ OL_FiltPost
    \/ OL_FiltCnt
    \/ OL_FiltClr
    \/ OL_Commit
    \/ OL_Estimate

InitSpecPF ==
    /\ InitMd
    /\ InitOLGains
    /\ InitOLLatency(TDiv(22 * SCALE, 10), 0)
    /\ InitOLSwitches
    /\ InitOLState
    /\ IdleCam /\ IdleRun /\ InitTune /\ IdlePix

\* the thread of the integrator is scheduled whenever it can take a step;
\* nothing is assumed of the processes that write aol_modeval and
\* aol_modevalPF
SpecPF == InitSpecPF /\ [][NextPF]_vars /\ WF_vars(IterationSteps)

\* Read_cam_frame called again and again on the threaded path
NextPool ==
    \/ Pool_Load
    \/ Pool_Create
    \/ Pool_Sleep
    \/ Pool_Created
    \/ Pool_Post
    \/ Pool_WaitResult
    \/ Pool_Publish
    \/ \E k \in Workers : Worker_ReadIndex(k)
    \/ \E k \in Workers : Worker_Subtract(k)
    \/ \E k \in Workers : Worker_Post(k)

InitSpecPool ==
    /\ InitMd /\ IdleOL
    /\ InitCam /\ wfsimNBsem = 1
    /\ IdleRun /\ InitTune
    /\ IdleGPU
    /\ InitFrame /\ wfsmask.id = -1 /\ AOLCOMPUTE_TOTAL_ASYNC = 0
    /\ InitPool /\ InitStage /\ InitCmd

SpecPool == InitSpecPool /\ [][NextPool]_vars

\* the main loop statement by statement, switched on, off and killed by the
\* operator, on the CPU or the GPU, in two-step or direct mode
NextStage ==
    \/ AOloopControl_loopon
    \/ AOloopControl_loopoff
    \/ AOloopControl_loopkill
    \/ AOloopControl_DMprimaryWrite_on
    \/ AOloopControl_DMprimaryWrite_off
    \/ Run_Start
    \/ Run_Outer
    \/ Run_Inner
    \/ Stage_WaitDark
    \/ Stage_WaitImage
    \/ Stage_LoadImage
    \/ Stage_DarkSubtract
    \/ Stage_Total
    \/ Stage_Normalize
    \/ Stage_RemoveRef
    \/ Stage_Multiply
    \/ Stage_Execute
    \/ Stage_Gains
    \/ Stage_Returned
    \/ Stage_Limits
    \/ Stage_WriteDM
    \/ Stage_End

InitSpecStage ==
    /\ InitMd /\ IdleOL
    /\ IdleCam /\ InitRun /\ InitTune
    /\ InitGPU /\ GPU0 \in { 0, 1 }
    /\ IdleFrame /\ InitPool /\ InitStage /\ InitCmd

SpecStage == InitSpecStage /\ [][NextStage]_vars

\* ------------------------------------------------------------------------
\* The bounded run called with any step count, the loop on or off, while
\* the main loop runs and frames keep arriving

\* the step counts a caller passes: NBstep is a signed long
StepCounts == (0 - 1) .. MaxStep

\* AOloopControl_loopstep(loop, NBstep) with any NBstep
AOloopControl_loopstep_any == LoopstepStore(StepCounts)

\* AOloopControl_loopon called while no bounded run is waiting
LoopOnBeforeStep == pcStep = "idle" /\ AOloopControl_loopon

\* the statements of AOloopControl_run and of one iteration
MainLoopSteps ==
    \/ Run_Start
    \/ Run_Outer
    \/ Run_Inner
    \/ Stage_WaitDark
    \/ Stage_WaitImage
    \/ Stage_LoadImage
    \/ Stage_DarkSubtract
    \/ Stage_Total
    \/ Stage_Normalize
    \/ Stage_RemoveRef
    \/ Stage_Multiply
    \/ Stage_Execute
    \/ Stage_Gains
    \/ Stage_Returned
    \/ Stage_Limits
    \/ Stage_WriteDM
    \/ Stage_End

\* the caller of AOloopControl_loopstep goes on after its first store
LoopstepSteps == AOloopControl_loopstep_on \/ AOloopControl_loopstep_return

NextStep ==
    \/ LoopOnBeforeStep
    \/ AOloopControl_loopstep_any
    \/ AOloopControl_loopstep_on
    \/ AOloopControl_loopstep_return
    \/ Run_Start
    \/ Run_Outer
    \/ Run_Inner
    \/ Stage_WaitDark
    \/ Stage_WaitImage
    \/ Stage_LoadImage
    \/ Stage_DarkSubtract
    \/ Stage_Total
    \/ Stage_Normalize
    \/ Stage_RemoveRef
    \/ Stage_Multiply
    \/ Stage_Execute
    \/ Stage_Gains
    \/ Stage_Returned
    \/ Stage_Limits
    \/ Stage_WriteDM
    \/ Stage_End

InitSpecStep == InitSpecStage

\* both processes are scheduled: the main loop takes its next statement and
\* the caller of loopstep its next one, whenever there is one to take
SpecStep ==
    /\ InitSpecStep
    /\ [][NextStep]_vars
    /\ WF_vars(MainLoopSteps)
    /\ WF_vars(LoopstepSteps)

\* the iterations followed here ran out while the stop count was still
\* ahead of the iteration count
StepsExhausted == stageiter = MaxStageIter /\ cnt < cntmax

notCmd == << camvars, camghost, runghost, tunevars, gpuvars, gpughost,
             framevars, totvars, poolvars, stagevars, md, modeval, cfgvars,
             localvars, bufvars, telemvars, olctl, AUTOTUNE_LIMITS_ON,
             ARPFon, IDmodevalPF, modevalPF, nbframes, obs, atlimbcoeff,
             gain, mult, kill, cnt, cntmax, DMprimaryWrite_ON, CMMODE,
             maxlimit, pcRun, pcStep, dmC, meas_act, meas_modes >>
modearrays == << GAIN_modes, LIMIT_modes, MULTF_modes >>

\* the values AOloopControl_loopreset passes: 0.0, 0.01 (held as the
\* smallest positive value of the scale) and 0.95
ResetGain == 0
ResetLimit == (SCALE + 99) \div 100
ResetMultf == TDiv(95 * SCALE, 100)

\* AOloopControl_setgainblock(mb, gainval)
AOloopControl_setgainblock(b, gainval) ==
    gainb' = IF b < confNBblock THEN [gainb EXCEPT ![b] = gainval]
                                ELSE gainb

\* AOloopControl_setlimitblock(mb, limitval)
AOloopControl_setlimitblock(b, limitval) ==
    limitb' = IF b < confNBblock THEN [limitb EXCEPT ![b] = limitval]
                                 ELSE limitb

\* AOloopControl_setmultfblock(mb, multfval)
AOloopControl_setmultfblock(b, multfval) ==
    multfb' = IF b < confNBblock THEN [multfb EXCEPT ![b] = multfval]
                                 ELSE multfb

\* the three setters called from the command line, which runs one command
\* at a time
Cmd_setgainblock ==
    /\ pcReset = "idle"
    /\ \E b \in Blocks, v \in GainVals : AOloopControl_setgainblock(b, v)
    /\ UNCHANGED << notCmd, modearrays, cmdvars, on, cmd_modes, limitb,
                    multfb >>

Cmd_setlimitblock ==
    /\ pcReset = "idle"
    /\ \E b \in Blocks, v \in { ResetLimit, SCALE } :
           AOloopControl_setlimitblock(b, v)
    /\ UNCHANGED << notCmd, modearrays, cmdvars, on, cmd_modes, gainb,
                    multfb >>

Cmd_setmultfblock ==
    /\ pcReset = "idle"
    /\ \E b \in Blocks, v \in { ResetMultf, SCALE } :
           AOloopControl_setmultfblock(b, v)
    /\ UNCHANGED << notCmd, modearrays, cmdvars, on, cmd_modes, gainb,
                    limitb >>

\* the configuration is loaded: the number of blocks is set
Conf_LoadBlocks ==
    /\ pcReset = "idle"
    /\ confNBblock' = DMmodesNBblock
    /\ UNCHANGED << notCmd, modearrays, pcReset, mbReset, rangeghost, on,
                    cmd_modes, gainb, limitb, multfb >>

\* AOloopControl_loopreset: the loop is switched off and the modal commands
\* are zeroed
Reset_Start ==
    /\ pcReset = "idle"
    /\ on' = 0
    /\ cmd_modes' = [k \in Modes |-> 0]
    /\ mbReset' = 0
    /\ pcReset' = "blocks"
    /\ UNCHANGED << notCmd, modearrays, confNBblock, rangeghost, gainb, limitb,
                    multfb >>

\* one pass of for(mb=0; mb<DMmodesNBblock; mb): the third expression is
\* mb, the index stays where it is
Reset_Block ==
    /\ pcReset = "blocks"
    /\ mbReset < confNBblock
    /\ AOloopControl_setgainblock(mbReset, ResetGain)
    /\ AOloopControl_setlimitblock(mbReset, ResetLimit)
    /\ AOloopControl_setmultfblock(mbReset, ResetMultf)
    /\ mbReset' = mbReset
    /\ UNCHANGED << notCmd, modearrays, pcReset, confNBblock, rangeghost,
                    on,
                    cmd_modes >>

\* the loop over the blocks is left and AOloopControl_loopreset returns
Reset_Return ==
    /\ pcReset = "blocks"
    /\ ~ (mbReset < confNBblock)
    /\ pcReset' = "idle"
    /\ UNCHANGED << notCmd, modearrays, mbReset, confNBblock, rangeghost,
                    on,
                    cmd_modes, gainb, limitb, multfb >>

\* the loop is switched on from the command line
Cmd_loopon ==
    /\ pcReset = "idle"
    /\ on' = 1
    /\ UNCHANGED << notCmd, modearrays, cmdvars, cmd_modes, gainb, limitb,
                    multfb >>

\* the loop is switched off from the command line
Cmd_loopoff ==
    /\ pcReset = "idle"
    /\ on' = 0
    /\ UNCHANGED << notCmd, modearrays, cmdvars, cmd_modes, gainb, limitb,
                    multfb >>

\* the modal commands the main loop leaves behind while the loop is on
CmdVecs == [Modes -> { 0, SCALE }]

\* AOcompute stores the modal commands of an iteration
Loop_WriteCmd ==
    /\ pcReset = "idle"
    /\ on = 1
    /\ \E c \in CmdVecs : cmd_modes' = c
    /\ UNCHANGED << notCmd, modearrays, cmdvars, on, gainb, limitb,
                    multfb >>

ResetSteps == Reset_Block \/ Reset_Return

NextReset ==
    \/ Cmd_setgainblock
    \/ Cmd_setlimitblock
    \/ Cmd_setmultfblock
    \/ Cmd_loopon
    \/ Cmd_loopoff
    \/ Loop_WriteCmd
    \/ Conf_LoadBlocks
    \/ Reset_Start
    \/ Reset_Block
    \/ Reset_Return

InitSpecReset ==
    /\ InitMd /\ IdleOL
    /\ IdleCam /\ IdleRun /\ InitTune
    /\ IdlePix

\* the process that runs AOloopControl_loopreset is scheduled
SpecReset == InitSpecReset /\ [][NextReset]_vars /\ WF_vars(ResetSteps)

\* C29: AOloopControl_loopreset terminates, and when it returns the loop is
\* off, every modal command is 0 and every block has gain 0, limit 0.01 and
\* multiplier 0.95
C29_LoopresetTerminates ==
    (pcReset = "blocks")
        ~> (/\ pcReset = "idle"
            /\ on = 0
            /\ \A k \in Modes : cmd_modes[k] = 0
            /\ \A b \in 0 .. (confNBblock - 1) :
                   /\ gainb[b] = ResetGain
                   /\ limitb[b] = ResetLimit
                   /\ multfb[b] = ResetMultf)

\* ------------------------------------------------------------------------
\* The setters of a range of modes

\* the mode indices a caller passes: m0 and m1 are signed longs
RangeArgs == (0 - 1) .. NBmodes
RangeVals == { SCALE \div 2 }

\* kmax = m1+1; if(kmax>NBDMmodes) kmax = NBDMmodes-1;
RangeKmax(m1) == IF m1 + 1 > NBmodes THEN NBmodes - 1 ELSE m1 + 1

\* the indices k of for(k=m0; k<kmax; k++)
RangeWritten(m0, m1) == m0 .. (RangeKmax(m1) - 1)

\* the array after array.F[k] = val for these k, as far as k is in the array
SetRange(arr, m0, m1, val) ==
    [k \in Modes |-> IF k \in RangeWritten(m0, m1) THEN val ELSE arr[k]]

\* the array.F[k] written with k outside the array, and the call recorded
RangeCall(name, m0, m1, val) ==
    /\ stray' = stray \cup (RangeWritten(m0, m1) \ Modes)
    /\ lastrange' = [fn |-> name, m0 |-> m0, m1 |-> m1, val |-> val,
                     tick |-> 1 - lastrange.tick]

\* AOloopControl_setgainrange(m0, m1, gainval)
AOloopControl_setgainrange ==
    /\ \E m0 \in RangeArgs, m1 \in RangeArgs, val \in RangeVals :
         /\ GAIN_modes' = SetRange(GAIN_modes, m0, m1, val)
         /\ RangeCall("gain", m0, m1, val)
    /\ UNCHANGED << notCmd, LIMIT_modes, MULTF_modes, pcReset, mbReset,
                    confNBblock, on, cmd_modes, gainb, limitb, multfb >>

\* AOloopControl_setlimitrange(m0, m1, limval)
AOloopControl_setlimitrange ==
    /\ \E m0 \in RangeArgs, m1 \in RangeArgs, val \in RangeVals :
         /\ LIMIT_modes' = SetRange(LIMIT_modes, m0, m1, val)
         /\ RangeCall("limit", m0, m1, val)
    /\ UNCHANGED << notCmd, GAIN_modes, MULTF_modes, pcReset, mbReset,
                    confNBblock, on, cmd_modes, gainb, limitb, multfb >>

\* AOloopControl_setmultfrange(m0, m1, multfval)
AOloopControl_setmultfrange ==
    /\ \E m0 \in RangeArgs, m1 \in RangeArgs, val \in RangeVals :
         /\ MULTF_modes' = SetRange(MULTF_modes, m0, m1, val)
         /\ RangeCall("multf", m0, m1, val)
    /\ UNCHANGED << notCmd, GAIN_modes, LIMIT_modes, pcReset, mbReset,
                    confNBblock, on, cmd_modes, gainb, limitb, multfb >>

NextRange ==
    \/ AOloopControl_setgainrange
    \/ AOloopControl_setlimitrange
    \/ AOloopControl_setmultfrange

InitSpecRange == InitSpecReset

SpecRange == InitSpecRange /\ [][NextRange]_vars

\* a range setter has been called
RangeStep == lastrange'.tick # lastrange.tick

\* the array a call is to leave: val at the modes m0 <= k <= min(m1,
\* NBDMmodes-1), the other modes as they were
RangeIntended(arr, c) ==
    [k \in Modes |-> IF c.m0 <= k /\ k <= Min(c.m1, NBmodes - 1)
                         THEN c.val ELSE arr[k]]

\* C30: a range setter called with (m0, m1, v) sets exactly the modes k with
\* m0 <= k <= min(m1, NBDMmodes-1) of its own array to v, leaves every other
\* mode and the other two arrays unchanged, and writes no element outside
\* 0..NBDMmodes-1
C30_RangeSetExactly ==
    [][RangeStep =>
         LET c == lastrange' IN
           /\ GAIN_modes' = IF c.fn = "gain"
                                THEN RangeIntended(GAIN_modes, c)
                                ELSE GAIN_modes
           /\ LIMIT_modes' = IF c.fn = "limit"
                                 THEN RangeIntended(LIMIT_modes, c)
                                 ELSE LIMIT_modes
           /\ MULTF_modes' = IF c.fn = "multf"
                                 THEN RangeIntended(MULTF_modes, c)
                                 ELSE MULTF_modes
           /\ stray' = stray]_vars

\* ------------------------------------------------------------------------
\* Properties of the integrator task
\* ------------------------------------------------------------------------
\* the vector just written into the history ring
Committed == modevalDM_C[modevalDMindex]

\* the filtered vector is complete and the limits were not touched since
FilteredPc == {"pub_now", "filt_post", "filt_cnt", "filt_clr", "commit"}

\* C1 (as stated): right after the commit every committed mode satisfies
\* |committed[m]| <= limitb[block(m)] x LIMIT_modes[m], the effective limit
\* that the limit streams publish at that moment, auto-tune-limits on or off.
C1_ClipPublishedLimit ==
    pcOL = "estimate" =>
        \A m \in Modes : FLe(fabs(Committed[m]), EffLimit(m))

\* What the clamp does give: a filtered or committed mode that is a number
\* is never beyond +/- modelimit[m], the effective limit read at the start
\* of the iteration, which is the published one while auto-tune-limits is
\* off.
ClipWithinIterationLimit ==
    /\ pcOL \in FilteredPc =>
          \A m \in Modes : ~FGt(fabs(modevalDMnowfilt[m]), modelimit[m])
    /\ pcOL = "estimate" =>
          \A m \in Modes :
              /\ ~FGt(fabs(Committed[m]), modelimit[m])
              /\ Committed[m] = modevalDMnowfilt[m]
              /\ AUTOTUNE_LIMITS_ON # 1 => modelimit[m] = EffLimit(m)

\* C2 (as stated): a subscriber woken by a semaphore post of
\* aol_modeval_dm_now_filt never sees the write flag set, nor an update
\* counter that was not yet incremented for the update that woke it.
C2_WokenSeesCompleteUpdate ==
    obs.woken => (obs.write = 0 /\ ~obs.stale)

\* C8 (as stated): a NaN measurement never enters the modal command vector or
\* the DM history ring.
C8_NoNaNInCommand ==
    /\ \A m \in Modes : ~isnan(modevalDMnow[m])
    /\ \A i \in 0 .. (modevalDM_bsize - 1) :
          \A m \in Modes : ~isnan(modevalDM_C[i][m])

\* ------------------------------------------------------------------------
\* Properties of Read_cam_frame
\* ------------------------------------------------------------------------
\* the first call made after the camera stopped found a backlog of posts
BacklogAtCall == prodStopped /\ callsAfterStop >= 1 /\ semAtCall >= 1

\* the first call made after the camera stopped is blocked on the semaphore
FirstCallBlocked ==
    callsAfterStop = 1 /\ pcCam = "wait" /\ md["wfsim"].sem = 0

\* C3 (as stated): when the camera has posted the frame semaphore N >= 1
\* times while Read_cam_frame was not waiting and then stops, the next call
\* of Read_cam_frame returns and no later call does.
C3_BacklogOneWakeup ==
    BacklogAtCall => (~FirstCallBlocked /\ retAfterStop <= 1)

\* C3 (amended): the same, for a next call that does not reset the
\* semaphore on entry (not the first call of the process, InitSem = 0);
\* once that call has returned the semaphore is empty.
C3_BacklogOneWakeupNoReset ==
    (BacklogAtCall /\ ~resetInCall) =>
        /\ ~FirstCallBlocked
        /\ retAfterStop <= 1
        /\ retAfterStop = 1 => md["wfsim"].sem = 0

\* a backlog of two posts gave one return, and the call after it is blocked
C3_Witness ==
    /\ BacklogAtCall
    /\ ~resetInCall
    /\ semAtCall >= 2
    /\ retAfterStop = 1
    /\ callsAfterStop = 2
    /\ pcCam = "wait"
    /\ md["wfsim"].sem = 0

\* ------------------------------------------------------------------------
\* Properties of the main loop
\* ------------------------------------------------------------------------
\* C4 (as stated): once kill = 1, AOloopControl_run starts no further
\* iteration: from the test of the inner loop it never enters AOcompute.
C4_NoIterationAfterKill ==
    [][(kill = 1 /\ pcRun = "inner") => pcRun' # "compute"]_vars

\* C5 (as stated): once AOloopControl_loopstep(loop, N), N >= 1, called
\* with the loop off and the main loop running, has switched the loop on,
\* and as long as the operator does not switch the loop, the loop is on
\* while cnt has advanced by less than N and is off with cnt advanced by
\* exactly N from then on.
C5_StepExactlyN ==
    (stepValid /\ pcStep # "seton") =>
        \/ on = 1 /\ cnt < stepStart + stepN
        \/ on = 0 /\ cnt = stepStart + stepN

\* the DM command stream: buffer, counters, write flag and semaphore
dmCstream == << dmC, md["dmC"] >>

\* C6: no step taken while DMprimaryWrite_ON = 0 changes the DM command
\* stream dmC (buffer, update counter, semaphore), in two-step mode and in
\* direct mode.
C6_WriteOffLeavesDM == [][DMprimaryWrite_ON = 0 => dmCstream' = dmCstream]_vars

\* an iteration went through its DM stage with the primary write off, after
\* an earlier iteration had written a non-zero command
C6_Witness ==
    /\ pcRun = "count"
    /\ DMprimaryWrite_ON = 0
    /\ ~lastDM.wrote
    /\ md["dmC"].cnt0 >= 1
    /\ \E i \in Acts : dmC[i] # 0

\* C7 (as stated): in two-step mode every iteration executes the
\* mode-to-actuator multiply, whatever DMprimaryWrite_ON is.
C7_MultiplyEveryIteration ==
    (pcRun = "count" /\ CMMODE = 0) => lastDM.mult

\* ------------------------------------------------------------------------
\* Properties of the gain tuner
\* ------------------------------------------------------------------------
\* the gains in force: global, per block and per mode
livegains == << gain, gainb, GAIN_modes >>

C10_NoEarlyRecommendation ==
    atg_cnt < AutoTuneWindow =>
        /\ IDout = ZeroVec
        /\ md["out"].cnt0 = 0
        /\ md["out"].sem = 0

\* the samples stopped one short of the window: the tuner is blocked on the
\* semaphore and has published nothing
C10_Witness ==
    /\ pcTune = "sample"
    /\ atg_cnt = AutoTuneWindow - 1
    /\ md["ol"].sem = 0
    /\ md["ol"].cnt0 = MaxOLposts
    /\ md["out"].write = 1
    /\ md["out"].cnt0 = 0

\* ------------------------------------------------------------------------
\* Properties of the tuning arrays
\* ------------------------------------------------------------------------
\* a step of the integrator task
IntegratorStep == pcOL' # pcOL

\* C11 (as stated): no step of the integrator writes any of the gain, limit
\* or multiplier values (global, per block, per mode), whatever the flags.
C11_IntegratorWritesNoTuning ==
    [][IntegratorStep =>
          /\ gainvars' = gainvars
          /\ limitb' = limitb
          /\ LIMIT_modes' = LIMIT_modes]_vars

\* C11 (amended): no step of the integrator writes a gain or a multiplier,
\* and it writes the per-block and per-mode limits in one place only, the
\* automatic adjustment of the limits, which runs when AUTOTUNE_LIMITS_ON
\* is 1.
C11_IntegratorWritesOnlyTunedLimits ==
    [][IntegratorStep =>
          /\ gainvars' = gainvars
          /\ (limitb' # limitb \/ LIMIT_modes' # LIMIT_modes)
                => (pcOL = "filter" /\ AUTOTUNE_LIMITS_ON = 1)]_vars

\* the automatic adjustment has just rewritten the per-mode limits
C11_Witness ==
    /\ pcOL = "pub_now"
    /\ md["LIMIT_modes"].cnt0 = 1
    /\ \E m \in Modes : LIMIT_modes[m] = FMul(SCALE, SCALE + AUTOTUNE_LIMITS_delta)
    /\ gain = SCALE \div 5

\* the modal update of AOcompute has just run
ModalUpdateStep == pcRun = "compute" /\ pcRun' = "dm" /\ CMMODE = 0

\* C12 (as stated): in the modal update of AOcompute, as in the integrator
\* task, the gain applied to mode k is gain x gainb[block(k)] x GAIN_modes[k]
\* and the multiplier is mult x multfb[block(k)] x MULTF_modes[k].
C12_ThreeFactorGainEveryPath ==
    [][ModalUpdateStep =>
          \A k \in Modes :
             cmd_modes'[k] =
                ModalIntegrateWith(cmd_modes[k], EffGain(k), meas_modes'[k],
                                   AOcomputeLimit(LIMIT_modes[k]),
                                   EffMult(k))]_vars

\* the integrator task has just computed its per-mode gains and limits
OLUpdateStep == pcOL = "update" /\ pcOL' = "blend"

\* C13 (as stated): in the integrator task and in the modal update of
\* AOcompute the command of mode m is clamped to
\* +/- maxlimit x limitb[block(m)] x LIMIT_modes[m].
C13_ThreeFactorLimitEveryPath ==
    [][/\ OLUpdateStep =>
             \A m \in Modes :
                modelimit'[m] = FMul(FMul(maxlimit, limitb[modeblock[m]]),
                                     LIMIT_modes[m])
       /\ ModalUpdateStep =>
             \A k \in Modes :
                cmd_modes'[k] =
                   ModalIntegrateWith(cmd_modes[k],
                       AOcomputeGain(GAIN_modes[k]), meas_modes'[k],
                       FMul(FMul(maxlimit, limitb[modeblock[k]]),
                            LIMIT_modes[k]),
                       AOcomputeMult(MULTF_modes[k]))]_vars

\* ------------------------------------------------------------------------
\* Properties of the DM history ring
\* ------------------------------------------------------------------------
\* number of zero vectors at the head of a history: for how many iterations,
\* the current one included, the committed command has been zero
RECURSIVE ZeroRun(_)
ZeroRun(h) ==
    IF h = << >> \/ Head(h) # ZeroVec THEN 0 ELSE 1 + ZeroRun(Tail(h))

\* the latency in whole iterations, rounded up, and at least one
LagIterations ==
    LET up == IF alpha > 0 THEN framelatency0 + 1 ELSE framelatency0
    IN  IF up < 1 THEN 1 ELSE up

EstimateStep == pcOL = "estimate" /\ pcOL' = "wait"

\* C14 (as stated): when the command committed by this iteration and by at
\* least `lag` iterations before it is zero, the open-loop estimate the
\* iteration publishes equals the measured vector in every mode.
C14_ZeroCommandOpenLoopIsMeasured ==
    [][(EstimateStep /\ ZeroRun(ringhist) >= LagIterations + 1)
          => modeval_ol' = modeval]_vars

\* the slot written last
RingLast == IF pcOL = "estimate" THEN modevalDMindex ELSE modevalDMindexl

\* number of commits made so far
Commits == iterOL + (IF pcOL = "estimate" THEN 1 ELSE 0)

\* C15: the cursor is the number of completed iterations modulo the ring
\* size; the slot k places behind the slot written last (0 <= k <= 19,
\* wrapping from slot 0 to slot 19) holds the vector committed k iterations
\* earlier, and a slot no iteration has written yet holds its initial zeros:
\* every iteration has written the slot at the cursor and no other.
C15_RingRoundTrip ==
    /\ modevalDMindex = iterOL % modevalDM_bsize
    /\ Len(ringhist) = Min(Commits, modevalDM_bsize + 2)
    /\ \A k \in 0 .. (modevalDM_bsize - 1) :
          modevalDM_C[(RingLast - k) % modevalDM_bsize] =
             IF k < Commits THEN ringhist[k + 1] ELSE ZeroVec

\* one iteration past the wraparound: slot 0 holds the newest vector and
\* slot 1 the one committed 19 iterations before it, which differs
C15_Witness ==
    /\ pcOL = "wait"
    /\ iterOL = modevalDM_bsize + 1
    /\ RingLast = 0
    /\ modevalDM_C[0] = ringhist[1]
    /\ modevalDM_C[1] = ringhist[modevalDM_bsize]
    /\ ringhist[1][0] = (modevalDM_bsize + 1) * SCALE
    /\ ringhist[modevalDM_bsize][0] = 2 * SCALE

\* C16 (as stated): when the estimator reads the ring, its two indices are
\* (cursor - L0) mod 20 and (cursor - L0 - 1) mod 20, within 0 .. 19, for
\* every configured latency.
C16_ReadIndicesInRange ==
    pcOL = "estimate" =>
       /\ LagIndex(framelatency0) =
             (modevalDMindex - framelatency0) % modevalDM_bsize
       /\ LagIndex(framelatency0 + 1) =
             (modevalDMindex - framelatency0 - 1) % modevalDM_bsize
       /\ LagIndex(framelatency0) \in 0 .. (modevalDM_bsize - 1)
       /\ LagIndex(framelatency0 + 1) \in 0 .. (modevalDM_bsize - 1)

\* ------------------------------------------------------------------------
\* Properties of the reconstruction on the GPU
\* ------------------------------------------------------------------------
\* C17 (as stated): when the reference is folded into the multiply
\* (COMPUTE_GPU_SCALING = 1) and the update counter of the control matrix or
\* of the WFS reference differs from what it was at the previous pass, the
\* pass hands initWFSref = 0 to GPU_loop_MultMat_setup, in two-step and in
\* direct mode.
C17_StaleReferenceRecomputed ==
    (COMPUTE_GPU_SCALING = 1 /\ (changedCM \/ changedRef)) => setupRef = 0

\* ------------------------------------------------------------------------
\* Properties of the normalisation in Read_cam_frame
\* ------------------------------------------------------------------------
\* Read_cam_frame has returned from a frame it normalised on the CPU, with
\* the total computed in its own thread and no mask
NormalisedOnCPU ==
    /\ pcFrame = "idle"
    /\ pixframes >= 1
    /\ normalize = 1
    /\ COMPUTE_GPU_SCALING = 0
    /\ AOLCOMPUTE_TOTAL_ASYNC = 0
    /\ wfsmask.id = -1

\* the frame and the dark of the scenario, with floor 0
ScenarioFrame ==
    /\ rawframe = [i \in 0 .. 3 |-> 100 * (i + 1)]
    /\ dark = [i \in 0 .. 3 |-> 10]
    /\ WFSnormfloor = 0

TunedFilterStep ==
    pcOL = "filter" /\ pcOL' = "pub_now" /\ AUTOTUNE_LIMITS_ON = 1

\* the signal of mode m is beyond the limit in force
Exceeds(m) ==
    FGt(fabs(FMul(AUTOTUNE_LIMITS_mcoeff, modevalDMnow[m])), modelimit[m])

\* C19 (as stated): with auto-tune-limits on, an iteration in which the
\* signal of mode m exceeds its effective limit leaves LIMIT_modes[m]
\* strictly larger than it was.
C19_LimitGrowsWhileExceeded ==
    [][TunedFilterStep =>
          \A m \in Modes :
             Exceeds(m) => LIMIT_modes'[m] > LIMIT_modes[m]]_vars

CommitStep == pcOL = "commit" /\ pcOL' = "estimate"

\* the value of mode m committed by the iteration before
PrevCommitted(m) == modevalDM_C[modevalDMindexl][m]

\* C20 (as stated): with a zero measurement, the predictive blend off and an
\* effective multiplier in (0,1), the value an iteration commits for mode m
\* is strictly smaller in magnitude than the non-zero value committed by
\* the iteration before.
C20_LeakDecays ==
    [][CommitStep =>
          \A m \in Modes :
             (/\ modeval[m] = 0
              /\ ARPFon # 1
              /\ 0 < modemult[m] /\ modemult[m] < SCALE
              /\ PrevCommitted(m) # 0)
                => FLt(fabs(modevalDM_C'[modevalDMindex][m]),
                       fabs(PrevCommitted(m)))]_vars

\* ------------------------------------------------------------------------
\* Properties of the open-loop estimate
\* ------------------------------------------------------------------------
\* the history slot `lag` places behind slot c, modulo the ring size
RingSlot(c, lag) == modevalDM_C[(c - lag) % modevalDM_bsize]

\* C21 (as stated): the estimate published by an iteration is, for every
\* mode m, measured[m] - ((1 - f) x H[(c - L0) mod 20][m]
\* + f x H[(c - L0 - 1) mod 20][m]), c being the slot the iteration
\* committed, L0 the integer part and f the fraction of the latency.
C21_OpenLoopFormula ==
    [][EstimateStep =>
          \A m \in Modes :
             modeval_ol'[m] =
                FSub(modeval[m],
                     FAdd(FMul(SCALE - alpha,
                               RingSlot(modevalDMindex, framelatency0)[m]),
                          FMul(alpha,
                               RingSlot(modevalDMindex,
                                        framelatency0 + 1)[m])))]_vars

\* ------------------------------------------------------------------------
\* Properties of the dark-subtraction threads
\* ------------------------------------------------------------------------
\* every created thread has read its index
WorkersStarted ==
    /\ AOLCOMPUTE_DARK_SUBTRACT_THREADinit = 1
    /\ \A k \in Workers : pcWorker[k] \in { "wait", "post" }

\* C22 (as stated): the threads hold pairwise distinct indices, so every
\* pixel lies in the range [t x n / T, (t + 1) x n / T) of exactly one
\* thread, and when status 2 is published every pixel of the frame was
\* dark-subtracted exactly once.
C22_EveryPixelSubtractedOnce ==
    /\ WorkersStarted =>
          /\ \A j, k \in Workers :
                j # k => threadindex[j] # threadindex[k]
          /\ \A ii \in Pixels :
                Cardinality({ k \in Workers :
                                ii \in ThreadPixels(threadindex[k]) }) = 1
    /\ (status = 2 /\ pcPool = "idle") =>
          \A ii \in Pixels :
             /\ subcnt[ii] = 1
             /\ pix_imWFS0[ii] = rawframe[ii] - dark[ii]

\* ------------------------------------------------------------------------
\* Progress of the integrator task
\* ------------------------------------------------------------------------
\* C23 (as stated): once a measurement has been received, the iteration
\* runs to its end, the publication of the open-loop estimate, whatever the
\* other processes do; with the predictive filter switched on it does not
\* wait for a prediction to be posted.
C23_IterationRunsToCompletion == (pcOL # "wait") ~> (pcOL = "wait")

\* ------------------------------------------------------------------------
\* Properties of the stage code
\* ------------------------------------------------------------------------
\* the codes that can follow code s within an iteration
StageAfter(s) ==
    CASE s = 19 -> { 20 }
      [] s = 20 -> { 0 }
      [] s = 0 -> { 1 }
      [] s = 1 -> { 2 }
      [] s = 2 -> { 3 }
      [] s = 3 -> { 4 }
      [] s = 4 -> { 5 }
      [] s = 5 -> IF GPU0 # 0 THEN { 6 } ELSE { 11 }
      [] s = 6 -> { 11 }
      [] s = 11 -> { 12 }
      [] s = 12 -> { 13, 18 }
      [] s = 13 -> { 14 }
      [] s = 14 -> { 18 }
      [] OTHER -> { }

\* the iteration passes the test of the DM stage
DMStageStep == pcStage = "dm" /\ pcStage' # "dm"

C25_ClipFractionInUnitInterval ==
    /\ \A b \in Blocks :
          0 <= blockave_limFrac[b] /\ blockave_limFrac[b] <= SCALE
    /\ 0 <= ALLave_limFrac /\ ALLave_limFrac <= SCALE

\* ------------------------------------------------------------------------
\* Properties of the frame intake
\* ------------------------------------------------------------------------
\* Read_cam_frame copies the camera frame
CopyStep == pcCam = "load" /\ pcCam' = "process"

\* C26 (as stated): in semaphore mode the frame an iteration copies has an
\* update counter strictly greater than that of the frame copied by the
\* iteration before.
C26_NoFrameCopiedTwice ==
    [][(CopyStep /\ wfsimNBsem > 0) => arraytmp' > arraytmp]_vars

\* Read_cam_frame takes the total from the thread
AsyncTotalStep ==
    /\ pcFrame = "total" /\ pcFrame' = "normalize"
    /\ normalize = 1
    /\ ~TotalInMainThread

\* C27 (as stated): the total Read_cam_frame takes from the thread is the
\* complete (masked) sum of one dark-subtracted frame.
C27_AsyncTotalIsComplete ==
    [][AsyncTotalStep => WFStotalflux' \in frametotals]_vars

====
